---- MODULE Spec2Model ----
(***************************************************************************)
(* Tenant-scoped course / enrollment domain of the academic platform:      *)
(* CourseService over the SQLAlchemy repositories.  The database tables    *)
(* are sets of rows; every service call runs in a call slot and takes one  *)
(* step per awaited repository operation, so that calls interleave exactly *)
(* at the persistence boundaries of the code.                              *)
(***************************************************************************)
EXTENDS Integers, FiniteSets, Sequences, TLC

(* ------------------------------ bounds --------------------------------- *)

\* number of call slots (service calls that may be in flight together)
NumCalls == 2

\* the clock runs from 0 to MaxTime
MaxTime == 2

\* largest max_students a course is created or seeded with
MaxCap == 2

\* longest student_ids list handed to bulk_enroll_students
MaxBulk == 2

\* dates of a project run from 0 to MaxDate
MaxDate == 2

\* team sizes run from 1 to MaxSize
MaxSize == 2

Procs == 1..NumCalls

None == "none"

\* Python None in an integer-valued column or variable
Null == 0 - 1

Tenants == {"t1", "t2"}

Codes == {"CS101", "CS102"}

\* rows of the users table (users.id); u9 is an id no user row has
Users == {"u1", "s1", "s2", "s3"}

InstructorIds == {"u1", "u9"}

Students == {"s1", "s2", "s3"}

(* ------------------------------- state --------------------------------- *)

VARIABLES
    courses,      \* table courses
    instructors,  \* table course_instructors
    enrollments,  \* table course_enrollments
    nextId,       \* source of fresh primary keys (uuid4)
    now,          \* datetime.utcnow()
    pc,           \* per call slot: the awaited operation the call is at
    call,         \* per call slot: the operation and its arguments
    loc,          \* per call slot: the call's local variables
    result,       \* per call slot: outcome of the finished call
    pre,          \* per call slot: the tables as they were when the call was issued
    projects,     \* table projects
    held,         \* Project objects in the identity map of the caller's session
    organizations \* table organizations

vars == <<courses, instructors, enrollments, nextId, now, pc, call, loc, result, pre,
          projects, held, organizations>>

(* ------------------------------ entities ------------------------------- *)

\* Course(...) as constructed by create_course, with the column defaults
NewCourse(id, code, tenant_id, max_students) ==
    [id |-> id, tenant_id |-> tenant_id, code |-> code,
     max_students |-> max_students, enrollment_deadline |-> Null,
     is_active |-> TRUE, auto_approval |-> FALSE]

\* the assignment built with another role than the one passed
NewCourseInstructorAsCoInstructor(id, course_id, instructor_id, role, tenant_id) ==
    [id |-> id, course_id |-> course_id, instructor_id |-> instructor_id,
     role |-> "co_instructor", is_active |-> TRUE, tenant_id |-> tenant_id]

\* CourseInstructor(...) with the column default is_active = True
NewCourseInstructor(id, course_id, instructor_id, role, tenant_id) ==
    [id |-> id, course_id |-> course_id, instructor_id |-> instructor_id,
     role |-> role, is_active |-> TRUE, tenant_id |-> tenant_id]

\* CourseEnrollment(...) with dropped_at left NULL
NewCourseEnrollment(id, course_id, student_id, status, method, tenant_id) ==
    [id |-> id, course_id |-> course_id, student_id |-> student_id,
     status |-> status, enrollment_method |-> method, tenant_id |-> tenant_id,
     dropped_at |-> Null]

(* --------------------------- call bookkeeping -------------------------- *)

NoArgs ==
    [op |-> None, tenant_id |-> None, code |-> None, instructor_id |-> None,
     max_students |-> Null, course_id |-> Null, student_id |-> None,
     auto_approve |-> FALSE, enrollment_method |-> None,
     enrollment_id |-> Null, student_ids |-> <<>>, role |-> None,
     assignment_id |-> Null, project_id |-> Null, start_date |-> Null,
     due_date |-> Null, team_formation_deadline |-> Null,
     min_team_size |-> Null, max_team_size |-> Null,
     allow_individual_work |-> {}, auto_team_formation |-> {},
     slug |-> None, domain |-> None, skip |-> Null, limit |-> Null]

NoLocals ==
    [course_id |-> Null, enrollment |-> {}, status |-> None,
     dropped_at |-> Null, i |-> 0, todo |-> <<>>, created |-> {},
     has_permission |-> FALSE, now |-> Null, page |-> <<>>]

\* the committed tables and the clock, as a caller observes them before
\* issuing a call
Snapshot ==
    [courses |-> courses, instructors |-> instructors,
     enrollments |-> enrollments, now |-> now, projects |-> projects,
     held |-> held, organizations |-> organizations]

NoSnapshot ==
    [courses |-> {}, instructors |-> {}, enrollments |-> {}, now |-> 0,
     projects |-> {}, held |-> {}, organizations |-> {}]

Observe(p) == pre' = [pre EXCEPT ![p] = Snapshot]

Free(p) == pc[p] \in {"idle", "done"}

\* a call is issued in slot p: arguments bound, locals fresh, at its first await
Issue(p, args, first) ==
    /\ Free(p)
    /\ call' = [call EXCEPT ![p] = args @@ NoArgs]
    /\ loc' = [loc EXCEPT ![p] = NoLocals]
    /\ result' = [result EXCEPT ![p] = None]
    /\ pc' = [pc EXCEPT ![p] = first]

\* the call in slot p raises (or returns) r and is over
Finish(p, r) ==
    /\ pc' = [pc EXCEPT ![p] = "done"]
    /\ result' = [result EXCEPT ![p] = r]

Goto(p, next) ==
    /\ pc' = [pc EXCEPT ![p] = next]
    /\ result' = result

(* ----------------------- CourseRepository queries ---------------------- *)

\* the lookup without the tenant filter
get_by_code_in_any_tenant(code, tenant_id) ==
    {c \in courses : c.code = code}

\* CourseRepository.get_by_code: rows with this code in this tenant
get_by_code(code, tenant_id) ==
    {c \in courses : c.code = code /\ c.tenant_id = tenant_id}

\* the insert with uq_course_code_per_tenant not enforced
CourseInsertUnconstrained(row) == TRUE

\* INSERT INTO courses: uq_course_code_per_tenant
CourseInsertOk(row) ==
    \A c \in courses : ~(c.tenant_id = row.tenant_id /\ c.code = row.code)

\* INSERT INTO course_instructors: both foreign keys and uq_course_instructor_role
InstructorInsertOk(row) ==
    /\ row.instructor_id \in Users
    /\ \E c \in courses : c.id = row.course_id
    /\ \A a \in instructors :
          ~(a.course_id = row.course_id /\ a.instructor_id = row.instructor_id
            /\ a.role = row.role)

(* ---------------------- CourseService.create_course -------------------- *)

CreateCourseCall(p) ==
    \E t \in Tenants, code \in Codes, i \in InstructorIds, m \in {Null, MaxCap} :
        /\ Issue(p, [op |-> "create_course", tenant_id |-> t, code |-> code,
                     instructor_id |-> i, max_students |-> m], "cc_check")
        /\ UNCHANGED <<courses, instructors, enrollments, nextId, now>>

\* existing_course = await course_repo.get_by_code(code, tenant_id)
CreateCourseCheck(p) ==
    /\ pc[p] = "cc_check"
    /\ IF get_by_code(call[p].code, call[p].tenant_id) # {}
       THEN Finish(p, "DuplicateCode")
       ELSE Goto(p, "cc_create")
    /\ UNCHANGED <<courses, instructors, enrollments, nextId, now, call, loc, pre>>

\* created_course = await course_repo.create(course): add, commit, refresh
CreateCourseInsert(p) ==
    /\ pc[p] = "cc_create"
    /\ LET row == NewCourse(nextId, call[p].code, call[p].tenant_id,
                            call[p].max_students)
       IN IF CourseInsertOk(row)
          THEN /\ courses' = courses \cup {row}
               /\ nextId' = nextId + 1
               /\ loc' = [loc EXCEPT ![p].course_id = row.id]
               /\ Goto(p, "cc_assign")
          ELSE /\ Finish(p, "IntegrityError")
               /\ UNCHANGED <<courses, nextId, loc>>
    /\ UNCHANGED <<instructors, enrollments, now, call, pre>>

\* await instructor_repo.create(course_instructor); return created_course
CreateCourseAssign(p) ==
    /\ pc[p] = "cc_assign"
    /\ LET row == NewCourseInstructor(nextId, loc[p].course_id,
                                      call[p].instructor_id,
                                      "primary_instructor", call[p].tenant_id)
       IN IF InstructorInsertOk(row)
          THEN /\ instructors' = instructors \cup {row}
               /\ nextId' = nextId + 1
               /\ loc' = [loc EXCEPT ![p].created = {row.id}]
               /\ Finish(p, "ok")
          ELSE /\ Finish(p, "IntegrityError")
               /\ UNCHANGED <<instructors, nextId, loc>>
    /\ UNCHANGED <<courses, enrollments, now, call, pre>>

(* ---------------------- CourseService.add_instructor ------------------- *)

\* InstructorRole
Roles == {"primary_instructor", "co_instructor", "teaching_assistant"}

\* CourseInstructorRepository.get_by_course_and_instructor: every assignment
\* of the pair, active or not
get_by_course_and_instructor(course_id, instructor_id) ==
    {a \in instructors :
        a.course_id = course_id /\ a.instructor_id = instructor_id}

AddInstructorCall(p, tenants) ==
    \E c \in {x.id : x \in courses}, i \in InstructorIds, r \in Roles,
       t \in tenants :
        /\ Issue(p, [op |-> "add_instructor", course_id |-> c,
                     instructor_id |-> i, role |-> r, tenant_id |-> t],
                 "ai_check")
        /\ UNCHANGED <<courses, instructors, enrollments, nextId, now>>

\* existing_assignments = await instructor_repo.get_by_course_and_instructor(...)
\* and the loop over them
AddInstructorCheck(p) ==
    /\ pc[p] = "ai_check"
    /\ LET existing_assignments ==
               get_by_course_and_instructor(call[p].course_id,
                                            call[p].instructor_id)
       IN IF \E a \in existing_assignments :
                a.role = call[p].role /\ a.is_active
          THEN Finish(p, "DuplicateAssignment")
          ELSE Goto(p, "ai_create")
    /\ UNCHANGED <<courses, instructors, enrollments, nextId, now, call, loc, pre>>

\* return await instructor_repo.create(course_instructor)
AddInstructorCreate(p) ==
    /\ pc[p] = "ai_create"
    /\ LET row == NewCourseInstructor(nextId, call[p].course_id,
                                      call[p].instructor_id, call[p].role,
                                      call[p].tenant_id)
       IN IF InstructorInsertOk(row)
          THEN /\ instructors' = instructors \cup {row}
               /\ nextId' = nextId + 1
               /\ loc' = [loc EXCEPT ![p].created = {row.id}]
               /\ Finish(p, "ok")
          ELSE /\ Finish(p, "IntegrityError")
               /\ UNCHANGED <<instructors, nextId, loc>>
    /\ UNCHANGED <<courses, enrollments, now, call, pre>>

\* an assignment is deactivated: is_active set to False on a loaded row, then
\* CourseInstructorRepository.update
DeactivateCall(p) ==
    \E a \in instructors :
        /\ a.is_active
        /\ Issue(p, [op |-> "deactivate", assignment_id |-> a.id], "de_commit")
        /\ UNCHANGED <<courses, instructors, enrollments, nextId, now>>

DeactivateCommit(p) ==
    /\ pc[p] = "de_commit"
    /\ instructors' = {IF a.id = call[p].assignment_id
                       THEN [a EXCEPT !.is_active = FALSE] ELSE a
                       : a \in instructors}
    /\ Finish(p, "ok")
    /\ UNCHANGED <<courses, enrollments, nextId, now, call, loc, pre>>

\* an assignment is deleted: CourseInstructorRepository.delete
RemoveCall(p) ==
    \E id \in {a.id : a \in instructors} \cup {Null} :
        /\ Issue(p, [op |-> "delete_assignment", assignment_id |-> id],
                 "rm_load")
        /\ UNCHANGED <<courses, instructors, enrollments, nextId, now>>

\* assignment = await self.get_by_id(instructor_assignment_id)
RemoveLoad(p) ==
    /\ pc[p] = "rm_load"
    /\ IF \E a \in instructors : a.id = call[p].assignment_id
       THEN Goto(p, "rm_commit")
       ELSE Finish(p, "False")
    /\ UNCHANGED <<courses, instructors, enrollments, nextId, now, call, loc,
                   pre>>

\* await self.session.delete(assignment); await self.session.commit()
RemoveCommit(p) ==
    /\ pc[p] = "rm_commit"
    /\ instructors' = {a \in instructors : a.id # call[p].assignment_id}
    /\ Finish(p, "True")
    /\ UNCHANGED <<courses, enrollments, nextId, now, call, loc, pre>>

(* ------------------- repository queries on enrollments ----------------- *)

\* CourseEnrollmentRepository.get_by_course_and_student (scalar_one_or_none)
get_by_course_and_student(course_id, student_id) ==
    {e \in enrollments : e.course_id = course_id /\ e.student_id = student_id}

\* CourseEnrollmentRepository.get_by_id
EnrollmentById(enrollment_id) == {e \in enrollments : e.id = enrollment_id}

\* CourseRepository.get_by_id
CourseById(course_id) == {c \in courses : c.id = course_id}

\* CourseRepository.get_by_id_and_tenant
get_by_id_and_tenant(course_id, tenant_id) ==
    {c \in courses : c.id = course_id /\ c.tenant_id = tenant_id}

\* selectinload(Course.enrollments) in the session of call p: the rows of the
\* course as stored now, except that a row the session already holds keeps
\* the attributes it was loaded with
LoadedEnrollments(p, course_id) ==
    {e \in enrollments :
        e.course_id = course_id /\ \A h \in loc[p].enrollment : h.id # e.id}
    \cup {h \in loc[p].enrollment : h.course_id = course_id}

\* Course.current_enrollment_count
\* the count that keeps a dropped enrollment's seat taken
current_enrollment_count_keeping_dropped(loaded) ==
    Cardinality({e \in loaded : e.status \in {"active", "dropped"}})

current_enrollment_count(loaded) ==
    Cardinality({e \in loaded : e.status = "active"})

\* the capacity test never answering full
is_full_never(course, loaded) == FALSE

\* the capacity test taken with > in place of >=
is_full_off_by_one(course, loaded) ==
    IF course.max_students = Null
    THEN FALSE
    ELSE current_enrollment_count(loaded) > course.max_students

\* Course.is_full
is_full(course, loaded) ==
    IF course.max_students = Null
    THEN FALSE
    ELSE current_enrollment_count(loaded) >= course.max_students

\* the test with the capacity part left out
enrollment_open_ignoring_capacity(course, loaded) ==
    IF ~course.is_active
    THEN FALSE
    ELSE ~(course.enrollment_deadline # Null /\ now > course.enrollment_deadline)

\* Course.enrollment_open
enrollment_open(course, loaded) ==
    IF ~course.is_active
    THEN FALSE
    ELSE IF course.enrollment_deadline # Null /\ now > course.enrollment_deadline
    THEN FALSE
    ELSE ~is_full(course, loaded)

\* the insert with uq_course_student_enrollment not enforced
EnrollmentInsertUnconstrained(rows) ==
    \A row \in rows :
        /\ row.student_id \in Users
        /\ \E c \in courses : c.id = row.course_id

\* INSERT INTO course_enrollments of the rows of one commit: both foreign
\* keys, and uq_course_student_enrollment against the stored rows and among
\* the rows of the commit
EnrollmentInsertOk(rows) ==
    \A row \in rows :
        /\ row.student_id \in Users
        /\ \E c \in courses : c.id = row.course_id
        /\ get_by_course_and_student(row.course_id, row.student_id) = {}
        /\ \A other \in rows :
              (other.course_id = row.course_id
               /\ other.student_id = row.student_id) => other = row

(* ------------------------- arguments of the calls ---------------------- *)

\* ids a caller can name: those of the stored rows, and Null for an id that
\* no row has
CourseIds == {c.id : c \in courses}

EnrollmentIds == {e.id : e \in enrollments} \cup {Null}

(* --------------------- CourseService.enroll_student -------------------- *)

EnrollCall(p, students, tenants, methods) ==
    \E c \in CourseIds, s \in students, t \in tenants, a \in BOOLEAN,
       m \in methods :
        /\ Issue(p, [op |-> "enroll_student", course_id |-> c, student_id |-> s,
                     tenant_id |-> t, enrollment_method |-> m,
                     auto_approve |-> a], "en_existing")
        /\ UNCHANGED <<courses, instructors, enrollments, nextId, now>>

\* the lookup with the ACTIVE test left out
EnrollExistingUnchecked(p) ==
    /\ pc[p] = "en_existing"
    /\ Goto(p, "en_course")
    /\ loc' = [loc EXCEPT ![p].enrollment =
                 get_by_course_and_student(call[p].course_id, call[p].student_id)]
    /\ UNCHANGED <<courses, instructors, enrollments, nextId, now, call, pre>>

\* existing_enrollment = await enrollment_repo.get_by_course_and_student(...)
EnrollExisting(p) ==
    /\ pc[p] = "en_existing"
    /\ LET existing == get_by_course_and_student(call[p].course_id,
                                                 call[p].student_id)
       IN IF \E e \in existing : e.status = "active"
          THEN Finish(p, "AlreadyEnrolled") /\ loc' = loc
          ELSE /\ Goto(p, "en_course")
               /\ loc' = [loc EXCEPT ![p].enrollment = existing]
    /\ UNCHANGED <<courses, instructors, enrollments, nextId, now, call, pre>>

\* the choice of the status taken from the auto_approve argument alone
EnrollCourseIgnoringAutoApproval(p) ==
    /\ pc[p] = "en_course"
    /\ LET found == get_by_id_and_tenant(call[p].course_id, call[p].tenant_id)
       IN IF found = {}
          THEN Finish(p, "CourseNotFound") /\ loc' = loc
          ELSE LET course == CHOOSE c \in found : TRUE
               IN IF ~enrollment_open(course,
                                      LoadedEnrollments(p, course.id))
                  THEN Finish(p, "EnrollmentClosed") /\ loc' = loc
                  ELSE /\ Goto(p, "en_create")
                       /\ loc' = [loc EXCEPT ![p].status =
                                    IF call[p].auto_approve
                                    THEN "active" ELSE "pending"]
    /\ UNCHANGED <<courses, instructors, enrollments, nextId, now, call, pre>>

\* course = await course_repo.get_by_id_and_tenant(...), the enrollment_open
\* test and the choice of the status
EnrollCourse(p) ==
    /\ pc[p] = "en_course"
    /\ LET found == get_by_id_and_tenant(call[p].course_id, call[p].tenant_id)
       IN IF found = {}
          THEN Finish(p, "CourseNotFound") /\ loc' = loc
          ELSE LET course == CHOOSE c \in found : TRUE
               IN IF ~enrollment_open(course,
                                      LoadedEnrollments(p, course.id))
                  THEN Finish(p, "EnrollmentClosed") /\ loc' = loc
                  ELSE /\ Goto(p, "en_create")
                       /\ loc' = [loc EXCEPT ![p].status =
                                    IF call[p].auto_approve \/ course.auto_approval
                                    THEN "active" ELSE "pending"]
    /\ UNCHANGED <<courses, instructors, enrollments, nextId, now, call, pre>>

\* return await enrollment_repo.create(enrollment): add, commit, refresh
EnrollCreate(p) ==
    /\ pc[p] = "en_create"
    /\ LET row == NewCourseEnrollment(nextId, call[p].course_id,
                                      call[p].student_id, loc[p].status,
                                      call[p].enrollment_method,
                                      call[p].tenant_id)
       IN IF EnrollmentInsertOk({row})
          THEN /\ enrollments' = enrollments \cup {row}
               /\ nextId' = nextId + 1
               /\ loc' = [loc EXCEPT ![p].created = {row.id}]
               /\ Finish(p, "ok")
          ELSE /\ Finish(p, "IntegrityError")
               /\ UNCHANGED <<enrollments, nextId, loc>>
    /\ UNCHANGED <<courses, instructors, now, call, pre>>

(* ------------------- CourseService.approve_enrollment ------------------ *)

ApproveCall(p) ==
    \E e \in EnrollmentIds :
        /\ Issue(p, [op |-> "approve_enrollment", enrollment_id |-> e],
                 "ap_load")
        /\ UNCHANGED <<courses, instructors, enrollments, nextId, now>>

\* the load with the status test left out
ApproveLoadUnchecked(p) ==
    /\ pc[p] = "ap_load"
    /\ LET found == EnrollmentById(call[p].enrollment_id)
       IN IF found = {}
          THEN Finish(p, "NotFound") /\ loc' = loc
          ELSE /\ Goto(p, "ap_course")
               /\ loc' = [loc EXCEPT ![p].enrollment = found]
    /\ UNCHANGED <<courses, instructors, enrollments, nextId, now, call, pre>>

\* enrollment = await enrollment_repo.get_by_id(enrollment_id) and the
\* status test
ApproveLoad(p) ==
    /\ pc[p] = "ap_load"
    /\ LET found == EnrollmentById(call[p].enrollment_id)
       IN IF found = {}
          THEN Finish(p, "NotFound") /\ loc' = loc
          ELSE IF \E e \in found : e.status # "pending"
          THEN Finish(p, "InvalidState") /\ loc' = loc
          ELSE /\ Goto(p, "ap_course")
               /\ loc' = [loc EXCEPT ![p].enrollment = found]
    /\ UNCHANGED <<courses, instructors, enrollments, nextId, now, call, pre>>

\* course = await course_repo.get_by_id(enrollment.course_id) and the
\* capacity test; enrollment.status = ACTIVE on the loaded object
ApproveCourse(p) ==
    /\ pc[p] = "ap_course"
    /\ LET mine == CHOOSE e \in loc[p].enrollment : TRUE
           found == CourseById(mine.course_id)
       IN IF \E c \in found : is_full(c, LoadedEnrollments(p, c.id))
          THEN Finish(p, "CourseFull") /\ loc' = loc
          ELSE /\ Goto(p, "ap_commit")
               /\ loc' = [loc EXCEPT ![p].status = "active"]
    /\ UNCHANGED <<courses, instructors, enrollments, nextId, now, call, pre>>

\* return await enrollment_repo.update(enrollment): the commit flushes
\* UPDATE course_enrollments SET status = ... WHERE id = ...
ApproveCommit(p) ==
    /\ pc[p] = "ap_commit"
    /\ IF EnrollmentById(call[p].enrollment_id) = {}
       THEN Finish(p, "StaleDataError") /\ enrollments' = enrollments
       ELSE /\ enrollments' =
                 {IF e.id = call[p].enrollment_id
                  THEN [e EXCEPT !.status = loc[p].status] ELSE e
                  : e \in enrollments}
            /\ Finish(p, "ok")
    /\ UNCHANGED <<courses, instructors, nextId, now, call, loc, pre>>

(* ---------------------- CourseService.drop_student --------------------- *)

DropCall(p) ==
    \E e \in EnrollmentIds :
        /\ Issue(p, [op |-> "drop_student", enrollment_id |-> e], "dr_load")
        /\ UNCHANGED <<courses, instructors, enrollments, nextId, now>>

\* the load with the status test left out
DropLoadUnchecked(p) ==
    /\ pc[p] = "dr_load"
    /\ LET found == EnrollmentById(call[p].enrollment_id)
       IN IF found = {}
          THEN Finish(p, "NotFound") /\ loc' = loc
          ELSE /\ Goto(p, "dr_commit")
               /\ loc' = [loc EXCEPT ![p].enrollment = found,
                                     ![p].status = "dropped",
                                     ![p].dropped_at = now]
    /\ UNCHANGED <<courses, instructors, enrollments, nextId, now, call, pre>>

\* the load with only the status set on the loaded object
DropLoadWithoutStamp(p) ==
    /\ pc[p] = "dr_load"
    /\ LET found == EnrollmentById(call[p].enrollment_id)
       IN IF found = {}
          THEN Finish(p, "NotFound") /\ loc' = loc
          ELSE IF \E e \in found : e.status \notin {"active", "pending"}
          THEN Finish(p, "InvalidState") /\ loc' = loc
          ELSE /\ Goto(p, "dr_commit")
               /\ loc' = [loc EXCEPT ![p].enrollment = found,
                                     ![p].status = "dropped"]
    /\ UNCHANGED <<courses, instructors, enrollments, nextId, now, call, pre>>

\* enrollment = await enrollment_repo.get_by_id(enrollment_id), the status
\* test, and status / dropped_at set on the loaded object
DropLoad(p) ==
    /\ pc[p] = "dr_load"
    /\ LET found == EnrollmentById(call[p].enrollment_id)
       IN IF found = {}
          THEN Finish(p, "NotFound") /\ loc' = loc
          ELSE IF \E e \in found : e.status \notin {"active", "pending"}
          THEN Finish(p, "InvalidState") /\ loc' = loc
          ELSE /\ Goto(p, "dr_commit")
               /\ loc' = [loc EXCEPT ![p].enrollment = found,
                                     ![p].status = "dropped",
                                     ![p].dropped_at = now]
    /\ UNCHANGED <<courses, instructors, enrollments, nextId, now, call, pre>>

\* return await enrollment_repo.update(enrollment)
DropCommit(p) ==
    /\ pc[p] = "dr_commit"
    /\ IF EnrollmentById(call[p].enrollment_id) = {}
       THEN Finish(p, "StaleDataError") /\ enrollments' = enrollments
       ELSE /\ enrollments' =
                 {IF e.id = call[p].enrollment_id
                  THEN [e EXCEPT !.status = loc[p].status,
                                 !.dropped_at = loc[p].dropped_at]
                  ELSE e
                  : e \in enrollments}
            /\ Finish(p, "ok")
    /\ UNCHANGED <<courses, instructors, nextId, now, call, loc, pre>>

(* ------------------ CourseService.bulk_enroll_students ----------------- *)

\* the lists of at most n ids of the given students
RECURSIVE Lists(_, _)
Lists(n, students) ==
    IF n = 0 THEN {<<>>}
    ELSE LET shorter == Lists(n - 1, students)
         IN shorter \cup {Append(l, s) : l \in shorter, s \in students}

BulkCall(p, students, tenants) ==
    \E c \in CourseIds, l \in Lists(MaxBulk, students), t \in tenants :
        /\ Issue(p, [op |-> "bulk_enroll_students", course_id |-> c,
                     student_ids |-> l, tenant_id |-> t,
                     enrollment_method |-> "instructor_added"], "bk_course")
        /\ UNCHANGED <<courses, instructors, enrollments, nextId, now>>

\* the lookup followed by the enrollment_open test of enroll_student
BulkCourseChecked(p) ==
    /\ pc[p] = "bk_course"
    /\ LET found == get_by_id_and_tenant(call[p].course_id, call[p].tenant_id)
       IN IF found = {}
          THEN Finish(p, "CourseNotFound") /\ loc' = loc
          ELSE IF \E c \in found : ~enrollment_open(c, LoadedEnrollments(p, c.id))
          THEN Finish(p, "EnrollmentClosed") /\ loc' = loc
          ELSE /\ Goto(p, IF call[p].student_ids = <<>> THEN "bk_commit"
                          ELSE "bk_filter")
               /\ loc' = [loc EXCEPT ![p].i = 1]
    /\ UNCHANGED <<courses, instructors, enrollments, nextId, now, call, pre>>

\* course = await course_repo.get_by_id_and_tenant(course_id, tenant_id)
BulkCourse(p) ==
    /\ pc[p] = "bk_course"
    /\ IF get_by_id_and_tenant(call[p].course_id, call[p].tenant_id) = {}
       THEN Finish(p, "CourseNotFound") /\ loc' = loc
       ELSE /\ Goto(p, IF call[p].student_ids = <<>> THEN "bk_commit"
                       ELSE "bk_filter")
            /\ loc' = [loc EXCEPT ![p].i = 1]
    /\ UNCHANGED <<courses, instructors, enrollments, nextId, now, call, pre>>

\* one turn of the loop: existing = await get_by_course_and_student(...);
\* the student is kept unless the existing enrollment is ACTIVE
BulkFilter(p) ==
    /\ pc[p] = "bk_filter"
    /\ LET student_id == call[p].student_ids[loc[p].i]
           existing == get_by_course_and_student(call[p].course_id, student_id)
           keep == existing = {} \/ \E e \in existing : e.status # "active"
       IN loc' = [loc EXCEPT ![p].i = @ + 1,
                             ![p].todo = IF keep THEN Append(@, student_id)
                                         ELSE @]
    /\ Goto(p, IF loc[p].i = Len(call[p].student_ids) THEN "bk_commit"
               ELSE "bk_filter")
    /\ UNCHANGED <<courses, instructors, enrollments, nextId, now, call, pre>>

\* CourseEnrollmentRepository.bulk_enroll_students: one ACTIVE row per listed
\* student under the tenant of the course, all in one commit
BulkCommit(p) ==
    /\ pc[p] = "bk_commit"
    /\ LET todo == loc[p].todo
           owner == CourseById(call[p].course_id)
       IN IF todo # <<>> /\ owner = {}
          THEN /\ Finish(p, "NoResultFound")
               /\ UNCHANGED <<enrollments, nextId, loc>>
          ELSE LET rows ==
                     {NewCourseEnrollment(
                          nextId + k - 1, call[p].course_id, todo[k], "active",
                          call[p].enrollment_method,
                          (CHOOSE c \in owner : TRUE).tenant_id)
                      : k \in 1..Len(todo)}
               IN IF EnrollmentInsertOk(rows)
                  THEN /\ enrollments' = enrollments \cup rows
                       /\ nextId' = nextId + Len(todo)
                       /\ loc' = [loc EXCEPT ![p].created = {r.id : r \in rows}]
                       /\ Finish(p, "ok")
                  ELSE /\ Finish(p, "IntegrityError")
                       /\ UNCHANGED <<enrollments, nextId, loc>>
    /\ UNCHANGED <<courses, instructors, now, call, pre>>

(* ----------------------------- ProjectService -------------------------- *)

\* Project(...) with the column defaults
NewProject(id, course_id, tenant_id, start_date, due_date, team_formation_deadline, min_team_size, max_team_size) ==
    [id |-> id, course_id |-> course_id, tenant_id |-> tenant_id,
     start_date |-> start_date, due_date |-> due_date,
     team_formation_deadline |-> team_formation_deadline,
     min_team_size |-> min_team_size, max_team_size |-> max_team_size,
     allow_individual_work |-> FALSE, auto_team_formation |-> TRUE,
     is_active |-> TRUE, is_published |-> FALSE]

\* Project.is_team_formation_open, datetime.utcnow() being t
is_team_formation_open(project, t) ==
    IF ~project.is_active \/ ~project.is_published
    THEN FALSE
    ELSE t <= project.team_formation_deadline

\* the rows the query of check_instructor_permission selects
ActiveAssignments(tbl, course_id, instructor_id) ==
    {a \in tbl : /\ a.course_id = course_id
                 /\ a.instructor_id = instructor_id
                 /\ a.is_active}

\* CourseInstructorRepository.check_instructor_permission:
\* result.scalar_one_or_none() is not None; scalar_one_or_none raises
\* MultipleResultsFound when the query selects more than one row
check_instructor_permission(course_id, instructor_id) ==
    LET rows == ActiveAssignments(instructors, course_id, instructor_id)
    IN IF Cardinality(rows) > 1 THEN "MultipleResultsFound"
       ELSE IF rows = {} THEN "denied"
       ELSE "granted"

\* ProjectRepository.get_by_id in the caller's session: the stored row, or
\* the object the identity map already holds for it, with the attributes that
\* object has
ProjectById(project_id) ==
    IF \E r \in projects : r.id = project_id
    THEN IF \E h \in held : h.id = project_id
         THEN {h \in held : h.id = project_id}
         ELSE {r \in projects : r.id = project_id}
    ELSE {}

\* the identity map after the object is loaded or assigned to
Holding(obj) == {h \in held : h.id # obj.id} \cup {obj}

\* session.commit(): the attributes of every held object are flushed to its
\* row
Flushed ==
    {IF \E h \in held : h.id = r.id
     THEN CHOOSE h \in held : h.id = r.id
     ELSE r
     : r \in projects}

ProjectIds == {r.id : r \in projects} \cup {Null}

CreateProjectCallIn(p, callers, dates, sizes, tenants) ==
    \E c \in CourseIds, i \in callers, start \in dates, due \in dates,
       deadline \in dates, min \in sizes, max \in sizes, t \in tenants :
        /\ Issue(p, [op |-> "create_project", course_id |-> c,
                     instructor_id |-> i, tenant_id |-> t,
                     start_date |-> start, due_date |-> due,
                     team_formation_deadline |-> deadline,
                     min_team_size |-> min, max_team_size |-> max],
                 "cp_permission")
        /\ UNCHANGED <<courses, instructors, enrollments, nextId, now,
                       projects, held, organizations>>

\* the validations with start_date = due_date let through
CreateProjectPermissionAllowingEqualDates(p) ==
    /\ pc[p] = "cp_permission"
    /\ LET has_permission ==
               check_instructor_permission(call[p].course_id,
                                           call[p].instructor_id)
       IN IF has_permission = "MultipleResultsFound"
          THEN Finish(p, "MultipleResultsFound") /\ loc' = loc
          ELSE IF has_permission = "denied"
          THEN Finish(p, "PermissionDenied") /\ loc' = loc
          ELSE /\ loc' = [loc EXCEPT ![p].has_permission = TRUE]
               /\ IF call[p].start_date > call[p].due_date
                  THEN Finish(p, "InvalidDateRange")
                  ELSE IF call[p].team_formation_deadline > call[p].due_date
                  THEN Finish(p, "InvalidDeadline")
                  ELSE IF call[p].min_team_size > call[p].max_team_size
                  THEN Finish(p, "InvalidTeamSize")
                  ELSE Goto(p, "cp_create")
    /\ UNCHANGED <<courses, instructors, enrollments, nextId, now, call, pre,
                   projects, held, organizations>>

\* the validations with the deadline tested before the date range
CreateProjectPermissionDeadlineFirst(p) ==
    /\ pc[p] = "cp_permission"
    /\ LET has_permission ==
               check_instructor_permission(call[p].course_id,
                                           call[p].instructor_id)
       IN IF has_permission = "MultipleResultsFound"
          THEN Finish(p, "MultipleResultsFound") /\ loc' = loc
          ELSE IF has_permission = "denied"
          THEN Finish(p, "PermissionDenied") /\ loc' = loc
          ELSE /\ loc' = [loc EXCEPT ![p].has_permission = TRUE]
               /\ IF call[p].team_formation_deadline > call[p].due_date
                  THEN Finish(p, "InvalidDeadline")
                  ELSE IF call[p].start_date >= call[p].due_date
                  THEN Finish(p, "InvalidDateRange")
                  ELSE IF call[p].min_team_size > call[p].max_team_size
                  THEN Finish(p, "InvalidTeamSize")
                  ELSE Goto(p, "cp_create")
    /\ UNCHANGED <<courses, instructors, enrollments, nextId, now, call, pre,
                   projects, held, organizations>>

\* create_project called with the tenant t1
CreateProjectCall(p, callers, dates, sizes) ==
    CreateProjectCallIn(p, callers, dates, sizes, {"t1"})

\* has_permission = await instructor_repo.check_instructor_permission(...)
\* and the three validations
CreateProjectPermission(p) ==
    /\ pc[p] = "cp_permission"
    /\ LET has_permission ==
               check_instructor_permission(call[p].course_id,
                                           call[p].instructor_id)
       IN IF has_permission = "MultipleResultsFound"
          THEN Finish(p, "MultipleResultsFound") /\ loc' = loc
          ELSE IF has_permission = "denied"
          THEN Finish(p, "PermissionDenied") /\ loc' = loc
          ELSE /\ loc' = [loc EXCEPT ![p].has_permission = TRUE]
               /\ IF call[p].start_date >= call[p].due_date
                  THEN Finish(p, "InvalidDateRange")
                  ELSE IF call[p].team_formation_deadline > call[p].due_date
                  THEN Finish(p, "InvalidDeadline")
                  ELSE IF call[p].min_team_size > call[p].max_team_size
                  THEN Finish(p, "InvalidTeamSize")
                  ELSE Goto(p, "cp_create")
    /\ UNCHANGED <<courses, instructors, enrollments, nextId, now, call, pre,
                   projects, held, organizations>>

\* return await project_repo.create(project): add, commit, refresh; the
\* foreign key to courses
CreateProjectCreate(p) ==
    /\ pc[p] = "cp_create"
    /\ LET row == NewProject(nextId, call[p].course_id, call[p].tenant_id,
                             call[p].start_date, call[p].due_date,
                             call[p].team_formation_deadline,
                             call[p].min_team_size, call[p].max_team_size)
       IN IF \E c \in courses : c.id = row.course_id
          THEN /\ projects' = Flushed \cup {row}
               /\ held' = Holding(row)
               /\ nextId' = nextId + 1
               /\ loc' = [loc EXCEPT ![p].created = {row.id}]
               /\ Finish(p, "ok")
          ELSE /\ Finish(p, "IntegrityError")
               /\ UNCHANGED <<projects, held, nextId, loc>>
    /\ UNCHANGED <<courses, instructors, enrollments, now, call, pre,
                   organizations>>

PublishCall(p, callers) ==
    \E id \in ProjectIds, i \in callers :
        /\ Issue(p, [op |-> "publish_project", project_id |-> id,
                     instructor_id |-> i], "pp_load")
        /\ UNCHANGED <<courses, instructors, enrollments, nextId, now,
                       projects, held, organizations>>

\* project = await project_repo.get_by_id(project_id)
PublishLoad(p) ==
    /\ pc[p] = "pp_load"
    /\ LET found == ProjectById(call[p].project_id)
       IN IF found = {}
          THEN Finish(p, "NotFound") /\ held' = held
          ELSE /\ Goto(p, "pp_permission")
               /\ held' = Holding(CHOOSE o \in found : TRUE)
    /\ UNCHANGED <<courses, instructors, enrollments, nextId, now, call, loc,
                   pre, projects, organizations>>

\* the permission check taken over every assignment, active or not
PublishPermissionAnyAssignment(p) ==
    /\ pc[p] = "pp_permission"
    /\ LET project == CHOOSE h \in held : h.id = call[p].project_id
           assignments ==
               {a \in instructors : /\ a.course_id = project.course_id
                                    /\ a.instructor_id = call[p].instructor_id}
       IN IF Cardinality(assignments) > 1
          THEN Finish(p, "MultipleResultsFound") /\ UNCHANGED <<loc, held>>
          ELSE IF assignments = {}
          THEN Finish(p, "PermissionDenied") /\ UNCHANGED <<loc, held>>
          ELSE /\ loc' = [loc EXCEPT ![p].has_permission = TRUE]
               /\ held' = Holding([project EXCEPT !.is_published = TRUE])
               /\ Goto(p, "pp_commit")
    /\ UNCHANGED <<courses, instructors, enrollments, nextId, now, call, pre,
                   projects, organizations>>

\* the assignment taken as a toggle of is_published
PublishPermissionToggling(p) ==
    /\ pc[p] = "pp_permission"
    /\ LET project == CHOOSE h \in held : h.id = call[p].project_id
           has_permission ==
               check_instructor_permission(project.course_id,
                                           call[p].instructor_id)
       IN IF has_permission = "MultipleResultsFound"
          THEN Finish(p, "MultipleResultsFound") /\ UNCHANGED <<loc, held>>
          ELSE IF has_permission = "denied"
          THEN Finish(p, "PermissionDenied") /\ UNCHANGED <<loc, held>>
          ELSE /\ loc' = [loc EXCEPT ![p].has_permission = TRUE]
               /\ held' = Holding([project EXCEPT !.is_published = ~@])
               /\ Goto(p, "pp_commit")
    /\ UNCHANGED <<courses, instructors, enrollments, nextId, now, call, pre,
                   projects, organizations>>

\* has_permission = await instructor_repo.check_instructor_permission(...);
\* project.is_published = True
PublishPermission(p) ==
    /\ pc[p] = "pp_permission"
    /\ LET project == CHOOSE h \in held : h.id = call[p].project_id
           has_permission ==
               check_instructor_permission(project.course_id,
                                           call[p].instructor_id)
       IN IF has_permission = "MultipleResultsFound"
          THEN Finish(p, "MultipleResultsFound") /\ UNCHANGED <<loc, held>>
          ELSE IF has_permission = "denied"
          THEN Finish(p, "PermissionDenied") /\ UNCHANGED <<loc, held>>
          ELSE /\ loc' = [loc EXCEPT ![p].has_permission = TRUE]
               /\ held' = Holding([project EXCEPT !.is_published = TRUE])
               /\ Goto(p, "pp_commit")
    /\ UNCHANGED <<courses, instructors, enrollments, nextId, now, call, pre,
                   projects, organizations>>

\* return await project_repo.update(project): commit, refresh
PublishCommit(p) ==
    /\ pc[p] = "pp_commit"
    /\ projects' = Flushed
    /\ Finish(p, "ok")
    /\ UNCHANGED <<courses, instructors, enrollments, nextId, now, call, loc,
                   pre, held, organizations>>

\* an Optional[bool] argument: {} for None, else the value supplied
OptionalBool == {{}, {TRUE}, {FALSE}}

UpdateCall(p, callers, mins, maxs, deadlines, allows, autos) ==
    \E id \in ProjectIds, i \in callers, min \in mins, max \in maxs,
       deadline \in deadlines, allow \in allows, auto \in autos :
        /\ Issue(p, [op |-> "update_team_formation_settings",
                     project_id |-> id, instructor_id |-> i,
                     min_team_size |-> min, max_team_size |-> max,
                     team_formation_deadline |-> deadline,
                     allow_individual_work |-> allow,
                     auto_team_formation |-> auto], "ut_load")
        /\ UNCHANGED <<courses, instructors, enrollments, nextId, now,
                       projects, held, organizations>>

\* project = await project_repo.get_by_id(project_id)
UpdateLoad(p) ==
    /\ pc[p] = "ut_load"
    /\ LET found == ProjectById(call[p].project_id)
       IN IF found = {}
          THEN Finish(p, "NotFound") /\ held' = held
          ELSE /\ Goto(p, "ut_permission")
               /\ held' = Holding(CHOOSE o \in found : TRUE)
    /\ UNCHANGED <<courses, instructors, enrollments, nextId, now, call, loc,
                   pre, projects, organizations>>

\* the five "if ... is not None" assignments
WithSettings(project, args) ==
    [project EXCEPT
        !.min_team_size =
            IF args.min_team_size # Null THEN args.min_team_size ELSE @,
        !.max_team_size =
            IF args.max_team_size # Null THEN args.max_team_size ELSE @,
        !.team_formation_deadline =
            IF args.team_formation_deadline # Null
            THEN args.team_formation_deadline ELSE @,
        !.allow_individual_work =
            IF args.allow_individual_work # {}
            THEN CHOOSE b \in args.allow_individual_work : TRUE ELSE @,
        !.auto_team_formation =
            IF args.auto_team_formation # {}
            THEN CHOOSE b \in args.auto_team_formation : TRUE ELSE @]

\* the update refused once team formation is no longer open
UpdatePermissionWhileOpen(p) ==
    /\ pc[p] = "ut_permission"
    /\ LET project == CHOOSE h \in held : h.id = call[p].project_id
           has_permission ==
               check_instructor_permission(project.course_id,
                                           call[p].instructor_id)
           updated == WithSettings(project, call[p])
       IN IF has_permission = "MultipleResultsFound"
          THEN Finish(p, "MultipleResultsFound") /\ UNCHANGED <<loc, held>>
          ELSE IF has_permission = "denied"
          THEN Finish(p, "PermissionDenied") /\ UNCHANGED <<loc, held>>
          ELSE /\ loc' = [loc EXCEPT ![p].has_permission = TRUE]
               /\ IF project.is_published /\ ~is_team_formation_open(project, now)
                  THEN Finish(p, "InvalidState") /\ held' = held
                  ELSE /\ held' = Holding(updated)
                       /\ IF updated.min_team_size > updated.max_team_size
                          THEN Finish(p, "InvalidTeamSize")
                          ELSE IF updated.team_formation_deadline > updated.due_date
                          THEN Finish(p, "InvalidDeadline")
                          ELSE Goto(p, "ut_commit")
    /\ UNCHANGED <<courses, instructors, enrollments, nextId, now, call, pre,
                   projects, organizations>>

\* has_permission = await instructor_repo.check_instructor_permission(...),
\* the assignments to the loaded object, then the two validations
UpdatePermission(p) ==
    /\ pc[p] = "ut_permission"
    /\ LET project == CHOOSE h \in held : h.id = call[p].project_id
           has_permission ==
               check_instructor_permission(project.course_id,
                                           call[p].instructor_id)
           updated == WithSettings(project, call[p])
       IN IF has_permission = "MultipleResultsFound"
          THEN Finish(p, "MultipleResultsFound") /\ UNCHANGED <<loc, held>>
          ELSE IF has_permission = "denied"
          THEN Finish(p, "PermissionDenied") /\ UNCHANGED <<loc, held>>
          ELSE /\ loc' = [loc EXCEPT ![p].has_permission = TRUE]
               /\ held' = Holding(updated)
               /\ IF updated.min_team_size > updated.max_team_size
                  THEN Finish(p, "InvalidTeamSize")
                  ELSE IF updated.team_formation_deadline > updated.due_date
                  THEN Finish(p, "InvalidDeadline")
                  ELSE Goto(p, "ut_commit")
    /\ UNCHANGED <<courses, instructors, enrollments, nextId, now, call, pre,
                   projects, organizations>>

\* return await project_repo.update(project): commit, refresh
UpdateCommit(p) ==
    /\ pc[p] = "ut_commit"
    /\ projects' = Flushed
    /\ Finish(p, "ok")
    /\ UNCHANGED <<courses, instructors, enrollments, nextId, now, call, loc,
                   pre, held, organizations>>

\* the caller closes its session and opens another: the identity map is
\* empty again
NewSession ==
    /\ \A p \in Procs : Free(p)
    /\ held # {}
    /\ held' = {}
    /\ UNCHANGED <<courses, instructors, enrollments, nextId, now, pc, call,
                   loc, result, pre, projects, organizations>>

(* ---------------------- team formation window ------------------------- *)

\* the where clause with the deadline compared strictly
TeamFormationOpenStrictly(tenant_id, t) ==
    {r \in projects : /\ r.tenant_id = tenant_id
                      /\ r.is_active = TRUE
                      /\ r.is_published = TRUE
                      /\ r.team_formation_deadline > t}

\* the where clause of list_team_formation_open
TeamFormationOpenRows(tenant_id, t) ==
    {r \in projects : /\ r.tenant_id = tenant_id
                      /\ r.is_active = TRUE
                      /\ r.is_published = TRUE
                      /\ r.team_formation_deadline >= t}

\* order_by(team_formation_deadline): the orders the database may return the
\* rows in
OrderedByDeadline(rows) ==
    {s \in [1..Cardinality(rows) -> rows] :
        /\ \A i, j \in 1..Cardinality(rows) : i # j => s[i] # s[j]
        /\ \A i, j \in 1..Cardinality(rows) :
              i < j => s[i].team_formation_deadline <= s[j].team_formation_deadline}

\* offset(skip).limit(limit)
PageOf(s, skip, limit) ==
    SubSeq(s, skip + 1, IF skip + limit < Len(s) THEN skip + limit ELSE Len(s))

\* now = datetime.utcnow()
ListOpenCall(p, skips, limits) ==
    \E t \in Tenants, skip \in skips, limit \in limits :
        /\ Free(p)
        /\ call' = [call EXCEPT ![p] =
                      [op |-> "list_team_formation_open", tenant_id |-> t,
                       skip |-> skip, limit |-> limit] @@ NoArgs]
        /\ loc' = [loc EXCEPT ![p] = [NoLocals EXCEPT !.now = now]]
        /\ result' = [result EXCEPT ![p] = None]
        /\ pc' = [pc EXCEPT ![p] = "lo_query"]
        /\ UNCHANGED <<courses, instructors, enrollments, nextId, now,
                       projects, held, organizations>>

\* result = await self.session.execute(select(Project)...)
ListOpenQuery(p) ==
    /\ pc[p] = "lo_query"
    /\ \E s \in OrderedByDeadline(TeamFormationOpenRows(call[p].tenant_id,
                                                        loc[p].now)) :
          loc' = [loc EXCEPT ![p].page =
                    PageOf(s, call[p].skip, call[p].limit)]
    /\ Finish(p, "ok")
    /\ UNCHANGED <<courses, instructors, enrollments, nextId, now, call, pre,
                   projects, held, organizations>>

(* ------------------------ CourseRepository.delete ---------------------- *)

DeleteCourseCall(p) ==
    \E id \in CourseIds \cup {Null} :
        /\ Issue(p, [op |-> "delete_course", course_id |-> id], "dc_load")
        /\ UNCHANGED <<courses, instructors, enrollments, nextId, now,
                       projects, held, organizations>>

\* course = await self.get_by_id(course_id)
DeleteCourseLoad(p) ==
    /\ pc[p] = "dc_load"
    /\ IF CourseById(call[p].course_id) = {}
       THEN Finish(p, "False")
       ELSE Goto(p, "dc_commit")
    /\ UNCHANGED <<courses, instructors, enrollments, nextId, now, call, loc,
                   pre, projects, held, organizations>>

\* the delete that removes the course row alone
DeleteCourseCommitWithoutCascade(p) ==
    /\ pc[p] = "dc_commit"
    /\ courses' = {c \in courses : c.id # call[p].course_id}
    /\ Finish(p, "True")
    /\ UNCHANGED <<instructors, enrollments, projects, held, nextId, now,
                   call, loc, pre, organizations>>

\* await self.session.delete(course); await self.session.commit(): the
\* loaded children go by the relationships' cascade="all, delete-orphan",
\* every other row that references the course by ondelete="CASCADE"
DeleteCourseCommit(p) ==
    /\ pc[p] = "dc_commit"
    /\ courses' = {c \in courses : c.id # call[p].course_id}
    /\ instructors' = {a \in instructors : a.course_id # call[p].course_id}
    /\ enrollments' = {e \in enrollments : e.course_id # call[p].course_id}
    /\ projects' = {r \in projects : r.course_id # call[p].course_id}
    /\ held' = {h \in held : h.course_id # call[p].course_id}
    /\ Finish(p, "True")
    /\ UNCHANGED <<nextId, now, call, loc, pre, organizations>>

(* ---------------- OrganizationService.create_organization -------------- *)

Slugs == {"a", "b"}

\* the domain argument: None, the empty string, or a name
Domains == {None, "", "x.edu"}

\* OrganizationRepository.get_by_slug
get_by_slug(slug) == {o \in organizations : o.slug = slug}

\* OrganizationRepository.get_by_domain
get_by_domain(domain) == {o \in organizations : o.domain = domain}

\* the insert with neither unique constraint enforced
OrganizationInsertUnconstrained(row) == TRUE

\* INSERT INTO organizations: slug unique, domain unique where it is not NULL
OrganizationInsertOk(row) ==
    /\ \A o \in organizations : o.slug # row.slug
    /\ row.domain # None => \A o \in organizations : o.domain # row.domain

CreateOrganizationCall(p) ==
    \E slug \in Slugs, domain \in Domains :
        /\ Issue(p, [op |-> "create_organization", slug |-> slug,
                     domain |-> domain], "co_slug")
        /\ UNCHANGED <<courses, instructors, enrollments, nextId, now,
                       projects, held, organizations>>

\* existing_org = await self.organization_repo.get_by_slug(slug); if domain:
CreateOrganizationSlug(p) ==
    /\ pc[p] = "co_slug"
    /\ IF get_by_slug(call[p].slug) # {}
       THEN Finish(p, "DuplicateSlug")
       ELSE IF call[p].domain \notin {None, ""}
       THEN Goto(p, "co_domain")
       ELSE Goto(p, "co_create")
    /\ UNCHANGED <<courses, instructors, enrollments, nextId, now, call, loc,
                   pre, projects, held, organizations>>

\* existing_domain = await self.organization_repo.get_by_domain(domain)
CreateOrganizationDomain(p) ==
    /\ pc[p] = "co_domain"
    /\ IF get_by_domain(call[p].domain) # {}
       THEN Finish(p, "DuplicateDomain")
       ELSE Goto(p, "co_create")
    /\ UNCHANGED <<courses, instructors, enrollments, nextId, now, call, loc,
                   pre, projects, held, organizations>>

\* return await self.organization_repo.create(organization)
CreateOrganizationCreate(p) ==
    /\ pc[p] = "co_create"
    /\ LET row == [id |-> nextId, slug |-> call[p].slug,
                   domain |-> call[p].domain]
       IN IF OrganizationInsertOk(row)
          THEN /\ organizations' = organizations \cup {row}
               /\ nextId' = nextId + 1
               /\ loc' = [loc EXCEPT ![p].created = {row.id}]
               /\ Finish(p, "ok")
          ELSE /\ Finish(p, "IntegrityError")
               /\ UNCHANGED <<organizations, nextId, loc>>
    /\ UNCHANGED <<courses, instructors, enrollments, now, call, pre,
                   projects, held>>

(* ----------------------------- specifications -------------------------- *)

\* no project, no organization, an empty session
InitNoProjects ==
    /\ projects = {}
    /\ held = {}
    /\ organizations = {}

\* a step of the course and enrollment operations
NoProjectStep == UNCHANGED <<projects, held, organizations>>

InitCalls ==
    /\ pc = [p \in Procs |-> "idle"]
    /\ call = [p \in Procs |-> NoArgs]
    /\ loc = [p \in Procs |-> NoLocals]
    /\ result = [p \in Procs |-> None]
    /\ pre = [p \in Procs |-> NoSnapshot]

\* empty database: concurrent create_course calls
InitCourse ==
    /\ courses = {}
    /\ instructors = {}
    /\ enrollments = {}
    /\ nextId = 1
    /\ now = 0
    /\ InitCalls
    /\ InitNoProjects

\* each slot carries one call; the calls interleave at every await
NextCourse ==
    /\ NoProjectStep
    /\ \E p \in Procs :
           \/ pc[p] = "idle" /\ CreateCourseCall(p) /\ Observe(p)
           \/ CreateCourseCheck(p)
           \/ CreateCourseInsert(p)
           \/ CreateCourseAssign(p)

SpecCourse == InitCourse /\ [][NextCourse]_vars

\* the database after create_course(code CS101, tenant t1, instructor u1) and
\* an update of the course settings: one course, its primary instructor
SeedCourse(cap, auto) ==
    [NewCourse(1, "CS101", "t1", cap) EXCEPT !.auto_approval = auto]

SeedInstructor == NewCourseInstructor(2, 1, "u1", "primary_instructor", "t1")

StudentOrder == [s \in Students |-> CASE s = "s1" -> 1 [] s = "s2" -> 2 [] OTHER -> 3]

\* the enrollments table in which student s has status f[s] (None: no row),
\* the rows created in the order of the students
SeedEnrollments(f) ==
    LET enrolled == {s \in Students : f[s] # None}
        rank(s) == Cardinality({x \in enrolled : StudentOrder[x] <= StudentOrder[s]})
    IN {[NewCourseEnrollment(2 + rank(s), 1, s, f[s], "self_enrolled", "t1")
           EXCEPT !.dropped_at = IF f[s] = "dropped" THEN now ELSE Null]
        : s \in enrolled}

ActiveCount(course_id) ==
    Cardinality({e \in enrollments :
                    e.course_id = course_id /\ e.status = "active"})

InitSeeded(caps, autos, students, statuses) ==
    /\ now = 0
    /\ \E cap \in caps, auto \in autos : courses = {SeedCourse(cap, auto)}
    /\ instructors = {SeedInstructor}
    /\ \E f \in [Students -> statuses \cup {None}] :
          /\ \A s \in Students \ students : f[s] = None
          /\ enrollments = SeedEnrollments(f)
    /\ nextId = 3 + Cardinality(enrollments)
    /\ InitCalls
    /\ InitNoProjects

\* one caller, each call issued after the one before it returned:
\* enroll_student, approve_enrollment and drop_student on a new course
InitSeq == InitSeeded(1..MaxCap, BOOLEAN, {}, {})

NextSeq ==
    /\ NoProjectStep
    /\ \E p \in {1} :
           \/ EnrollCall(p, Students, Tenants, {"self_enrolled"}) /\ Observe(p)
           \/ ApproveCall(p) /\ Observe(p)
           \/ DropCall(p) /\ Observe(p)
           \/ EnrollExisting(p)
           \/ EnrollCourse(p)
           \/ EnrollCreate(p)
           \/ ApproveLoad(p)
           \/ ApproveCourse(p)
           \/ ApproveCommit(p)
           \/ DropLoad(p)
           \/ DropCommit(p)

SpecSeq == InitSeq /\ [][NextSeq]_vars

\* capacity race: enroll_student and approve_enrollment calls in flight
\* together on a course that is within its capacity
InitRace ==
    /\ InitSeeded(1..MaxCap, {FALSE}, Students, {"pending", "active"})
    /\ \A c \in courses : ActiveCount(c.id) <= c.max_students

NextRace ==
    /\ NoProjectStep
    /\ \E p \in Procs :
           \/ pc[p] = "idle" /\ EnrollCall(p, Students, {"t1"}, {"self_enrolled"}) /\ UNCHANGED pre
           \/ pc[p] = "idle" /\ ApproveCall(p) /\ UNCHANGED pre
           \/ EnrollExisting(p)
           \/ EnrollCourse(p)
           \/ EnrollCreate(p)
           \/ ApproveLoad(p)
           \/ ApproveCourse(p)
           \/ ApproveCommit(p)

SpecRace == InitRace /\ [][NextRace]_vars

\* all four enrollment operations in flight together, on two students
Pair == {"s1", "s2"}

InitEnroll ==
    InitSeeded({MaxCap}, {FALSE}, Pair,
               {"pending", "active", "dropped", "completed"})

NextEnroll ==
    /\ NoProjectStep
    /\ \E p \in Procs :
           \/ pc[p] = "idle" /\ EnrollCall(p, Pair, {"t1"}, {"self_enrolled"}) /\ UNCHANGED pre
           \/ pc[p] = "idle" /\ ApproveCall(p) /\ UNCHANGED pre
           \/ pc[p] = "idle" /\ DropCall(p) /\ UNCHANGED pre
           \/ pc[p] = "idle" /\ BulkCall(p, Pair, {"t1"}) /\ UNCHANGED pre
           \/ EnrollExisting(p)
           \/ EnrollCourse(p)
           \/ EnrollCreate(p)
           \/ ApproveLoad(p)
           \/ ApproveCourse(p)
           \/ ApproveCommit(p)
           \/ DropLoad(p)
           \/ DropCommit(p)
           \/ BulkCourse(p)
           \/ BulkFilter(p)
           \/ BulkCommit(p)

SpecEnroll == InitEnroll /\ [][NextEnroll]_vars

\* the EnrollmentMethod values a caller of enroll_student passes
Methods == {"self_enrolled", "admin_added"}

\* one call, of any of the four enrollment operations, on a course whose
\* settings were updated after it was created: any capacity (unset and zero
\* included), open or not, with or without automatic approval, deactivated or
\* not, and a deadline that is unset, already past or exactly now
InitOnce ==
    /\ now = 1
    /\ \E cap \in {Null} \cup 0..MaxCap, auto \in BOOLEAN, active \in BOOLEAN,
          deadline \in {Null, 0, 1} :
          courses = {[SeedCourse(cap, auto) EXCEPT
                         !.is_active = active,
                         !.enrollment_deadline = deadline]}
    /\ instructors = {SeedInstructor}
    /\ \E f \in [Students -> {None, "pending", "active", "dropped", "completed"}] :
          /\ \A s \in Students \ Pair : f[s] = None
          /\ enrollments = SeedEnrollments(f)
    /\ nextId = 3 + Cardinality(enrollments)
    /\ InitCalls
    /\ InitNoProjects

NextOnce ==
    /\ NoProjectStep
    /\ \E p \in {1} :
           \/ pc[p] = "idle" /\ EnrollCall(p, Pair, Tenants, Methods) /\ Observe(p)
           \/ pc[p] = "idle" /\ ApproveCall(p) /\ Observe(p)
           \/ pc[p] = "idle" /\ DropCall(p) /\ Observe(p)
           \/ pc[p] = "idle" /\ BulkCall(p, Pair, Tenants) /\ Observe(p)
           \/ EnrollExisting(p)
           \/ EnrollCourse(p)
           \/ EnrollCreate(p)
           \/ ApproveLoad(p)
           \/ ApproveCourse(p)
           \/ ApproveCommit(p)
           \/ DropLoad(p)
           \/ DropCommit(p)
           \/ BulkCourse(p)
           \/ BulkFilter(p)
           \/ BulkCommit(p)

SpecOnce == InitOnce /\ [][NextOnce]_vars

\* datetime.utcnow() answers a later time
Tick ==
    /\ now < MaxTime
    /\ now' = now + 1
    /\ UNCHANGED <<courses, instructors, enrollments, nextId, pc, call, loc,
                   result, pre>>

\* one caller, each call issued after the one before it returned, all four
\* enrollment operations on a new course, while the clock runs
InitClock == InitSeeded({MaxCap}, {FALSE}, {}, {})

NextClock ==
    /\ NoProjectStep
    /\ \/ Tick
       \/ \E p \in {1} :
             \/ EnrollCall(p, Pair, {"t1"}, {"self_enrolled"}) /\ Observe(p)
             \/ ApproveCall(p) /\ Observe(p)
             \/ DropCall(p) /\ Observe(p)
             \/ BulkCall(p, Pair, {"t1"}) /\ Observe(p)
             \/ EnrollExisting(p)
             \/ EnrollCourse(p)
             \/ EnrollCreate(p)
             \/ ApproveLoad(p)
             \/ ApproveCourse(p)
             \/ ApproveCommit(p)
             \/ DropLoad(p)
             \/ DropCommit(p)
             \/ BulkCourse(p)
             \/ BulkFilter(p)
             \/ BulkCommit(p)

SpecClock == InitClock /\ [][NextClock]_vars

\* one caller, each call issued after the one before it returned:
\* create_course of CS101 first, then add_instructor calls on the course, and
\* deactivations of its assignments in between
InitAssign == InitCourse

NextAssign ==
    /\ NoProjectStep
    /\ \E p \in {1} :
           \/ /\ courses = {}
              /\ CreateCourseCall(p)
              /\ call'[p].code = "CS101"
              /\ call'[p].max_students = Null
              /\ Observe(p)
           \/ AddInstructorCall(p, {"t1"}) /\ Observe(p)
           \/ DeactivateCall(p) /\ Observe(p)
           \/ CreateCourseCheck(p)
           \/ CreateCourseInsert(p)
           \/ CreateCourseAssign(p)
           \/ AddInstructorCheck(p)
           \/ AddInstructorCreate(p)
           \/ DeactivateCommit(p)

SpecAssign == InitAssign /\ [][NextAssign]_vars

RoleOrder ==
    [r \in Roles |-> CASE r = "primary_instructor" -> 1
                       [] r = "co_instructor" -> 2
                       [] OTHER -> 3]

\* the course_instructors table in which u1 holds, on course 1, the role r
\* with is_active = f[r] (None: no assignment with that role)
SeedAssignments(f) ==
    LET assigned == {r \in Roles : f[r] # None}
        rank(r) == Cardinality({x \in assigned : RoleOrder[x] <= RoleOrder[r]})
    IN {[NewCourseInstructor(1 + rank(r), 1, "u1", r, "t1")
           EXCEPT !.is_active = (f[r] = "active")]
        : r \in assigned}

\* one call of a ProjectService operation, in a new session, on a course on
\* which u1 holds any combination of active and deactivated roles, and which
\* has no project yet or one project, published or not
InitProjectOnce ==
    /\ now = 0
    /\ courses = {SeedCourse(Null, FALSE)}
    /\ \E f \in [Roles -> {None, "active", "inactive"}] :
          instructors = SeedAssignments(f)
    /\ enrollments = {}
    /\ \E stored \in SUBSET {1 + Cardinality(instructors) + 1},
          published \in BOOLEAN :
          projects = {[NewProject(id, 1, "t1", 0, 1, 1, 1, 1)
                          EXCEPT !.is_published = published] : id \in stored}
    /\ nextId = 2 + Cardinality(instructors) + Cardinality(projects)
    /\ held = {}
    /\ organizations = {}
    /\ InitCalls

NextProjectOnce ==
    /\ UNCHANGED <<courses, instructors, enrollments, now, organizations>>
    /\ \E p \in {1} :
          \/ /\ pc[p] = "idle"
             /\ CreateProjectCall(p, InstructorIds, 0..MaxDate, 1..MaxSize)
             /\ Observe(p)
          \/ pc[p] = "idle" /\ PublishCall(p, InstructorIds) /\ Observe(p)
          \/ /\ pc[p] = "idle"
             /\ UpdateCall(p, InstructorIds, {Null, MaxSize}, {Null},
                           {Null, MaxDate}, {{}}, {{}})
             /\ Observe(p)
          \/ CreateProjectPermission(p)
          \/ CreateProjectCreate(p)
          \/ PublishLoad(p)
          \/ PublishPermission(p)
          \/ PublishCommit(p)
          \/ UpdateLoad(p)
          \/ UpdatePermission(p)
          \/ UpdateCommit(p)

SpecProjectOnce == InitProjectOnce /\ [][NextProjectOnce]_vars

\* one caller with one session, each call issued after the one before it
\* returned: u1, the primary instructor of the course, creates a project,
\* then publishes it and updates its settings; the session may be replaced
\* between two calls
InitSession ==
    /\ now = 0
    /\ courses = {SeedCourse(Null, FALSE)}
    /\ instructors = {SeedInstructor}
    /\ enrollments = {}
    /\ nextId = 3
    /\ InitNoProjects
    /\ InitCalls

NextSession ==
    /\ UNCHANGED <<courses, instructors, enrollments, now, organizations>>
    /\ \/ NewSession
       \/ \E p \in {1} :
             \/ /\ projects = {}
                /\ CreateProjectCall(p, {"u1"}, {0, 1}, {1, MaxSize})
                /\ Observe(p)
             \/ PublishCall(p, {"u1"}) /\ Observe(p)
             \/ /\ UpdateCall(p, {"u1"}, {Null, 1, MaxSize}, {Null, 1},
                              {Null, MaxDate}, {{}, {TRUE}}, {{}})
                /\ Observe(p)
             \/ CreateProjectPermission(p)
             \/ CreateProjectCreate(p)
             \/ PublishLoad(p)
             \/ PublishPermission(p)
             \/ PublishCommit(p)
             \/ UpdateLoad(p)
             \/ UpdatePermission(p)
             \/ UpdateCommit(p)

SpecSession == InitSession /\ [][NextSession]_vars

\* calls on a stored, unpublished project of a course whose one assignment (u1)
\* is deactivated or deleted between them; each call runs in a session of its
\* own
InitAuthorize ==
    /\ now = 0
    /\ courses = {SeedCourse(Null, FALSE)}
    /\ instructors = {SeedInstructor}
    /\ enrollments = {}
    /\ projects = {NewProject(3, 1, "t1", 0, 1, 1, 1, 1)}
    /\ nextId = 4
    /\ held = {}
    /\ organizations = {}
    /\ InitCalls

NextAuthorize ==
    /\ UNCHANGED <<courses, enrollments, now, organizations>>
    /\ \/ NewSession /\ instructors' = instructors
       \/ \E p \in {1} :
             \/ /\ held = {}
                /\ PublishCall(p, InstructorIds)
                /\ Observe(p)
             \/ /\ held = {}
                /\ UpdateCall(p, InstructorIds, {Null, MaxSize}, {Null},
                              {Null}, {{}, {TRUE}}, {{}})
                /\ Observe(p)
             \/ /\ held = {}
                /\ DeactivateCall(p)
                /\ Observe(p)
                /\ UNCHANGED <<projects, held>>
             \/ /\ held = {}
                /\ RemoveCall(p)
                /\ Observe(p)
                /\ UNCHANGED <<projects, held>>
             \/ DeactivateCommit(p) /\ UNCHANGED <<projects, held>>
             \/ RemoveLoad(p) /\ UNCHANGED <<projects, held>>
             \/ RemoveCommit(p) /\ UNCHANGED <<projects, held>>
             \/ PublishLoad(p)
             \/ PublishPermission(p)
             \/ PublishCommit(p)
             \/ UpdateLoad(p)
             \/ UpdatePermission(p)
             \/ UpdateCommit(p)

SpecAuthorize == InitAuthorize /\ [][NextAuthorize]_vars

\* a course with an instructor, an enrollment and a project is deleted while
\* calls that insert an assignment, an enrollment or a project are in flight
InitDelete ==
    /\ now = 0
    /\ courses = {SeedCourse(Null, FALSE)}
    /\ instructors = {SeedInstructor}
    /\ enrollments = {NewCourseEnrollment(3, 1, "s1", "active",
                                          "self_enrolled", "t1")}
    /\ projects = {NewProject(4, 1, "t1", 0, 1, 1, 1, 1)}
    /\ nextId = 5
    /\ held = {}
    /\ organizations = {}
    /\ InitCalls

NextDelete ==
    \E p \in Procs :
        \/ pc[p] = "idle" /\ DeleteCourseCall(p) /\ Observe(p)
        \/ /\ pc[p] = "idle"
           /\ EnrollCall(p, {"s2"}, {"t1"}, {"self_enrolled"})
           /\ Observe(p)
           /\ NoProjectStep
        \/ /\ pc[p] = "idle"
           /\ AddInstructorCall(p, {"t1"})
           /\ Observe(p)
           /\ NoProjectStep
        \/ /\ pc[p] = "idle"
           /\ CreateProjectCall(p, {"u1"}, {0, 1}, {1})
           /\ Observe(p)
        \/ DeleteCourseLoad(p)
        \/ DeleteCourseCommit(p)
        \/ EnrollExisting(p) /\ NoProjectStep
        \/ EnrollCourse(p) /\ NoProjectStep
        \/ EnrollCreate(p) /\ NoProjectStep
        \/ AddInstructorCheck(p) /\ NoProjectStep
        \/ AddInstructorCreate(p) /\ NoProjectStep
        \/ CreateProjectPermission(p)
        \/ CreateProjectCreate(p)

SpecDelete == InitDelete /\ [][NextDelete]_vars

\* create_organization calls that interleave at every await on a database
\* with no organization yet: slot 1 issues one call after another, every other
\* slot carries one call
InitOrganization ==
    /\ courses = {}
    /\ instructors = {}
    /\ enrollments = {}
    /\ nextId = 1
    /\ now = 0
    /\ InitNoProjects
    /\ InitCalls

NextOrganization ==
    \E p \in Procs :
        \/ /\ p = 1 \/ pc[p] = "idle"
           /\ CreateOrganizationCall(p)
           /\ Observe(p)
        \/ CreateOrganizationSlug(p)
        \/ CreateOrganizationDomain(p)
        \/ CreateOrganizationCreate(p)

SpecOrganization == InitOrganization /\ [][NextOrganization]_vars

\* two tenants with a course each and two stored projects, of either tenant,
\* active or not, published or not, with any deadline; the clock advances
\* and the open projects are listed
InitListing ==
    /\ now = 0
    /\ courses = {NewCourse(1, "CS101", "t1", Null),
                  NewCourse(2, "CS101", "t2", Null)}
    /\ instructors = {}
    /\ enrollments = {}
    /\ \E f \in [{3, 4} -> [course_id : {1, 2}, is_active : BOOLEAN,
                            is_published : BOOLEAN,
                            team_formation_deadline : 0..MaxDate]] :
          projects =
              {[NewProject(id, f[id].course_id,
                           IF f[id].course_id = 1 THEN "t1" ELSE "t2",
                           0, MaxDate + 1, f[id].team_formation_deadline, 1, 1)
                  EXCEPT !.is_active = f[id].is_active,
                         !.is_published = f[id].is_published]
               : id \in {3, 4}}
    /\ nextId = 5
    /\ held = {}
    /\ organizations = {}
    /\ InitCalls

NextListing ==
    \/ Tick /\ NoProjectStep
    \/ \E p \in {1} :
          \/ ListOpenCall(p, {0, 1}, {1, 2}) /\ Observe(p)
          \/ ListOpenQuery(p)

SpecListing == InitListing /\ [][NextListing]_vars

\* calls of one caller, one after another, on the course of tenant t1, each
\* naming the course's tenant or another
InitOwnership == InitSession

NextOwnership ==
    \E p \in {1} :
        \/ AddInstructorCall(p, Tenants) /\ Observe(p) /\ NoProjectStep
        \/ /\ projects = {}
           /\ CreateProjectCallIn(p, {"u1"}, {0, 1}, {1}, Tenants)
           /\ Observe(p)
        \/ /\ EnrollCall(p, {"s1"}, Tenants, {"self_enrolled"})
           /\ Observe(p)
           /\ NoProjectStep
        \/ BulkCall(p, {"s2"}, Tenants) /\ Observe(p) /\ NoProjectStep
        \/ AddInstructorCheck(p) /\ NoProjectStep
        \/ AddInstructorCreate(p) /\ NoProjectStep
        \/ CreateProjectPermission(p)
        \/ CreateProjectCreate(p)
        \/ EnrollExisting(p) /\ NoProjectStep
        \/ EnrollCourse(p) /\ NoProjectStep
        \/ EnrollCreate(p) /\ NoProjectStep
        \/ BulkCourse(p) /\ NoProjectStep
        \/ BulkFilter(p) /\ NoProjectStep
        \/ BulkCommit(p) /\ NoProjectStep

SpecOwnership == InitOwnership /\ [][NextOwnership]_vars

\* one create_project or enroll_student call on a course of tenant t1 that is
\* open, inactive, past its deadline or full, with primary instructor u1, on
\* which s1 has no enrollment, an ACTIVE one or a DROPPED one
InitOrder ==
    /\ now = 1
    /\ \E cap \in {Null, 0}, active \in BOOLEAN, deadline \in {Null, 0} :
          courses = {[SeedCourse(cap, FALSE) EXCEPT
                         !.is_active = active,
                         !.enrollment_deadline = deadline]}
    /\ instructors = {SeedInstructor}
    /\ \E f \in [Students -> {None, "active", "dropped"}] :
          /\ \A s \in Students \ {"s1"} : f[s] = None
          /\ enrollments = SeedEnrollments(f)
    /\ nextId = 3 + Cardinality(enrollments)
    /\ InitCalls
    /\ InitNoProjects

NextOrder ==
    \E p \in {1} :
        \/ /\ pc[p] = "idle"
           /\ CreateProjectCall(p, InstructorIds, {0, 1}, {1, MaxSize})
           /\ Observe(p)
        \/ /\ pc[p] = "idle"
           /\ EnrollCall(p, {"s1"}, Tenants, {"self_enrolled"})
           /\ Observe(p)
           /\ NoProjectStep
        \/ CreateProjectPermission(p)
        \/ CreateProjectCreate(p)
        \/ EnrollExisting(p) /\ NoProjectStep
        \/ EnrollCourse(p) /\ NoProjectStep
        \/ EnrollCreate(p) /\ NoProjectStep

SpecOrder == InitOrder /\ [][NextOrder]_vars

\* the settings of a stored project, active or not, published or not, are
\* updated by its instructor while the clock runs past its deadline and its
\* due date; each call runs in a session of its own
InitFreeze ==
    /\ now = 0
    /\ courses = {SeedCourse(Null, FALSE)}
    /\ instructors = {SeedInstructor}
    /\ enrollments = {}
    /\ \E active \in BOOLEAN, published \in BOOLEAN, deadline \in {0, 1} :
          projects = {[NewProject(3, 1, "t1", 0, 1, deadline, 1, 1)
                          EXCEPT !.is_active = active,
                                 !.is_published = published]}
    /\ nextId = 4
    /\ held = {}
    /\ organizations = {}
    /\ InitCalls

NextFreeze ==
    \/ Tick /\ NoProjectStep
    \/ /\ UNCHANGED <<courses, instructors, enrollments, now, organizations>>
       /\ \/ NewSession
          \/ \E p \in {1} :
                \/ /\ held = {}
                   /\ UpdateCall(p, {"u1"}, {Null, 1, MaxSize}, {Null},
                                 {Null, 0, MaxDate}, {{}, {TRUE}}, {{}})
                   /\ Observe(p)
                \/ UpdateLoad(p)
                \/ UpdatePermission(p)
                \/ UpdateCommit(p)

SpecFreeze == InitFreeze /\ [][NextFreeze]_vars

(* ------------------------------- claims -------------------------------- *)

Done(p, op) == pc[p] = "done" /\ call[p].op = op

SameCode(c, tenant_id, code) == c.tenant_id = tenant_id /\ c.code = code

PrimaryAssignments(course_id) ==
    {a \in instructors : /\ a.course_id = course_id
                         /\ a.is_active
                         /\ a.role = "primary_instructor"}

\* C1: under any interleaving of create_course calls no two stored courses of
\* one tenant share a code, and a create_course issued while a course with
\* its (tenant_id, code) is stored ends with DuplicateCode having written
\* neither a course nor an instructor assignment.
C1_CodeUniquePerTenant ==
    /\ \A c1, c2 \in courses :
          (c1.tenant_id = c2.tenant_id /\ c1.code = c2.code) => c1 = c2
    /\ \A p \in Procs :
          (/\ Done(p, "create_course")
           /\ \E c \in pre[p].courses :
                 SameCode(c, call[p].tenant_id, call[p].code))
          => /\ result[p] = "DuplicateCode"
             /\ loc[p].course_id = Null
             /\ loc[p].created = {}
             /\ \A c \in courses :
                   SameCode(c, call[p].tenant_id, call[p].code)
                   => c \in pre[p].courses

\* a create_course issued for a stored (tenant_id, code) has been refused and
\* the tenant still holds the one course
C1_Witness ==
    \E p \in Procs :
        /\ Done(p, "create_course")
        /\ result[p] = "DuplicateCode"
        /\ \E c \in pre[p].courses : SameCode(c, call[p].tenant_id, call[p].code)
        /\ Cardinality({c \in courses : c.tenant_id = call[p].tenant_id}) = 1

\* C9: create_course is all-or-nothing: once no create_course call is still
\* between its two writes for a course, every stored course has exactly one
\* active PRIMARY_INSTRUCTOR assignment.
C9_NoOrphanCourse ==
    \A c \in courses :
        (\A p \in Procs : ~(pc[p] = "cc_assign" /\ loc[p].course_id = c.id))
        => Cardinality(PrimaryAssignments(c.id)) = 1

\* C10: a create_course call that succeeded created exactly one assignment
\* for the new course: active, PRIMARY_INSTRUCTOR, for primary_instructor_id,
\* under the tenant of the course.
C10_OnePrimaryAssignment ==
    \A p \in Procs :
        (Done(p, "create_course") /\ result[p] = "ok")
        => LET mine == {a \in instructors : a.course_id = loc[p].course_id}
           IN /\ Cardinality(mine) = 1
              /\ loc[p].created = {a.id : a \in mine}
              /\ \A a \in mine :
                    /\ a.is_active
                    /\ a.role = "primary_instructor"
                    /\ a.instructor_id = call[p].instructor_id
                    /\ a.tenant_id = call[p].tenant_id
                    /\ \E c \in courses :
                          c.id = a.course_id /\ c.tenant_id = a.tenant_id

\* two create_course calls have both succeeded
C10_Witness ==
    \A p \in Procs :
        /\ Done(p, "create_course")
        /\ result[p] = "ok"
        /\ Cardinality(instructors) = NumCalls

(* ---------------------- claims on enrollment capacity ------------------ *)

\* the status student_id has in course_id in the enrollments table tbl
StatusIn(tbl, course_id, student_id) ==
    LET rows == {e \in tbl : e.course_id = course_id /\ e.student_id = student_id}
    IN IF rows = {} THEN None ELSE (CHOOSE e \in rows : TRUE).status

CountIn(tbl, course_id) ==
    current_enrollment_count({e \in tbl : e.course_id = course_id})

\* C2: the capacity checks of approve_enrollment and enroll_student are
\* check-then-act: a call that passed its check is never refused for capacity
\* afterwards, so calls in flight together overshoot max_students, by at most
\* one less than the number of calls.
C2_CheckThenAct ==
    /\ \A p \in Procs :
          (Done(p, "approve_enrollment") /\ loc[p].status = "active")
          => result[p] = "ok"
    /\ \A p \in Procs :
          (Done(p, "enroll_student") /\ loc[p].status # None)
          => result[p] \in {"ok", "IntegrityError"}
    /\ \A c \in courses : ActiveCount(c.id) <= c.max_students - 1 + NumCalls

\* two approve_enrollment calls on distinct enrollments have both succeeded
\* and the course holds max_students + 1 ACTIVE enrollments
C2_Witness ==
    \E p, q \in Procs :
        /\ Done(p, "approve_enrollment") /\ result[p] = "ok"
        /\ Done(q, "approve_enrollment") /\ result[q] = "ok"
        /\ call[p].enrollment_id # call[q].enrollment_id
        /\ \A c \in courses : ActiveCount(c.id) = c.max_students + 1

\* the same overshoot after two auto-approved enroll_student calls
C2_WitnessEnroll ==
    \E p, q \in Procs :
        /\ Done(p, "enroll_student") /\ result[p] = "ok" /\ call[p].auto_approve
        /\ Done(q, "enroll_student") /\ result[q] = "ok" /\ call[q].auto_approve
        /\ p # q
        /\ \A c \in courses : ActiveCount(c.id) = c.max_students + 1

\* C3: when calls do not interleave and only enroll_student,
\* approve_enrollment and drop_student are used, the number of ACTIVE
\* enrollments of a course never exceeds its max_students.
C3_CapacityRespected ==
    \A c \in courses : ActiveCount(c.id) <= c.max_students

\* an enroll_student call was refused on a course holding exactly
\* max_students ACTIVE enrollments
C3_Witness ==
    \E p \in Procs :
        /\ Done(p, "enroll_student")
        /\ result[p] = "EnrollmentClosed"
        /\ \A c \in courses : ActiveCount(c.id) = c.max_students

\* C4: approve_enrollment on a PENDING enrollment of a course that holds
\* max_students ACTIVE enrollments fails with CourseFull and leaves the
\* enrollment PENDING.
C4_ApproveOnFullCourse ==
    \A p \in Procs :
        (/\ Done(p, "approve_enrollment")
         /\ \E e \in pre[p].enrollments :
               /\ e.id = call[p].enrollment_id
               /\ e.status = "pending"
               /\ \E c \in pre[p].courses :
                     /\ c.id = e.course_id
                     /\ CountIn(pre[p].enrollments, c.id) = c.max_students)
        => /\ result[p] = "CourseFull"
           /\ enrollments = pre[p].enrollments

\* an approval was refused with CourseFull for an enrollment that
\* enroll_student had created and that is still PENDING
C4_Witness ==
    \E p \in Procs :
        /\ Done(p, "approve_enrollment")
        /\ result[p] = "CourseFull"
        /\ \E e \in enrollments :
              e.id = call[p].enrollment_id /\ e.status = "pending"
        /\ \A c \in courses : ActiveCount(c.id) = c.max_students

\* the course of the scenario: CS101, max_students = 2, auto_approval = false
ScenarioCourse ==
    \A c \in courses :
        c.code = "CS101" /\ c.max_students = 2 /\ ~c.auto_approval

\* the statuses of s1, s2, s3 in the enrollments table tbl
Statuses(tbl) ==
    <<StatusIn(tbl, 1, "s1"), StatusIn(tbl, 1, "s2"), StatusIn(tbl, 1, "s3")>>

\* call p is enroll_student(student) without auto_approve by tenant t1, issued
\* on the statuses `before`
EnrollStep(p, student, before) ==
    /\ ScenarioCourse
    /\ Done(p, "enroll_student")
    /\ call[p].student_id = student
    /\ call[p].tenant_id = "t1"
    /\ ~call[p].auto_approve
    /\ Statuses(pre[p].enrollments) = before

\* call p is approve_enrollment of the enrollment of student, issued on the
\* statuses `before`
ApproveStep(p, student, before) ==
    /\ ScenarioCourse
    /\ Done(p, "approve_enrollment")
    /\ \E e \in pre[p].enrollments :
          e.id = call[p].enrollment_id /\ e.student_id = student
    /\ Statuses(pre[p].enrollments) = before

Returned(p, after) == result[p] = "ok" /\ Statuses(enrollments) = after

\* the first four calls of the scenario: enroll(s1) -> PENDING,
\* approve(s1) -> ACTIVE, enroll(s2) -> PENDING, approve(s2) -> ACTIVE
ScenarioPrefix ==
    \A p \in Procs :
        /\ EnrollStep(p, "s1", <<None, None, None>>)
           => Returned(p, <<"pending", None, None>>)
        /\ ApproveStep(p, "s1", <<"pending", None, None>>)
           => Returned(p, <<"active", None, None>>)
        /\ EnrollStep(p, "s2", <<"active", None, None>>)
           => Returned(p, <<"active", "pending", None>>)
        /\ ApproveStep(p, "s2", <<"active", "pending", None>>)
           => Returned(p, <<"active", "active", None>>)

\* C5 as stated: after the first four calls enroll_student(s3) returns a
\* PENDING enrollment, and approve(s3) then fails with CourseFull.
C5_ScenarioAsStated ==
    /\ ScenarioPrefix
    /\ \A p \in Procs :
          /\ EnrollStep(p, "s3", <<"active", "active", None>>)
             => Returned(p, <<"active", "active", "pending">>)
          /\ ApproveStep(p, "s3", <<"active", "active", "pending">>)
             => (result[p] = "CourseFull"
                 /\ Statuses(enrollments) = <<"active", "active", "pending">>)

\* C5 (amended): the first four calls run as stated; enroll_student(s3) on
\* the course that is now full fails with EnrollmentClosed and creates no
\* enrollment, so there is no enrollment of s3 to approve.
C5_ScenarioAmended ==
    /\ ScenarioPrefix
    /\ \A p \in Procs :
          EnrollStep(p, "s3", <<"active", "active", None>>)
          => /\ result[p] = "EnrollmentClosed"
             /\ enrollments = pre[p].enrollments

\* enroll_student(s3) has been answered after s1 and s2 were enrolled and
\* approved
C5_Witness ==
    \E p \in Procs :
        /\ EnrollStep(p, "s3", <<"active", "active", None>>)
        /\ result[p] = "EnrollmentClosed"
        /\ Cardinality(enrollments) = 2

(* --------------------- claims on enrollment uniqueness ----------------- *)

\* C6: under any interleaving of enroll_student, bulk_enroll_students,
\* approve_enrollment and drop_student there is at most one stored
\* enrollment per (course_id, student_id), whatever its status.
C6_OneEnrollmentPerPair ==
    \A e1, e2 \in enrollments :
        (e1.course_id = e2.course_id /\ e1.student_id = e2.student_id)
        => e1 = e2

\* a second row for a pair was attempted by both calls in flight and the
\* pair still has its one row
C6_Witness ==
    /\ \E p \in Procs : Done(p, "enroll_student") /\ result[p] = "IntegrityError"
    /\ \E p \in Procs : Done(p, "bulk_enroll_students") /\ result[p] = "IntegrityError"
    /\ \A s \in Pair : StatusIn(enrollments, 1, s) # None

\* enrollment_open of the course in the tables of a snapshot
OpenIn(snapshot, course_id, tenant_id) ==
    \E c \in snapshot.courses :
        /\ c.id = course_id
        /\ c.tenant_id = tenant_id
        /\ enrollment_open(c, {e \in snapshot.enrollments : e.course_id = c.id})

\* C7: enroll_student for a (course, student) whose enrollment is DROPPED, on
\* a course whose enrollment is open, succeeds and leaves the student with a
\* PENDING or ACTIVE enrollment.
C7_ReenrollAfterDrop ==
    \A p \in Procs :
        (/\ Done(p, "enroll_student")
         /\ StatusIn(pre[p].enrollments, call[p].course_id, call[p].student_id)
               = "dropped"
         /\ OpenIn(pre[p], call[p].course_id, call[p].tenant_id))
        => /\ result[p] = "ok"
           /\ StatusIn(enrollments, call[p].course_id, call[p].student_id)
                 \in {"pending", "active"}

\* C8: enroll_student for a (course, student) that has an ACTIVE enrollment
\* fails with AlreadyEnrolled, creating no row and changing none.
C8_AlreadyEnrolled ==
    \A p \in Procs :
        (/\ Done(p, "enroll_student")
         /\ StatusIn(pre[p].enrollments, call[p].course_id, call[p].student_id)
               = "active")
        => /\ result[p] = "AlreadyEnrolled"
           /\ enrollments = pre[p].enrollments
           /\ loc[p].created = {}

\* an enroll_student call for an actively enrolled student has been answered
C8_Witness ==
    \E p \in Procs :
        /\ Done(p, "enroll_student")
        /\ result[p] = "AlreadyEnrolled"
        /\ StatusIn(pre[p].enrollments, call[p].course_id, call[p].student_id)
              = "active"
        /\ OpenIn(pre[p], call[p].course_id, call[p].tenant_id)

\* C11: a new enrollment row starts PENDING or ACTIVE, and the status of a
\* stored row changes only from PENDING to ACTIVE, by the commit of
\* approve_enrollment, or from PENDING or ACTIVE to DROPPED, by the commit of
\* drop_student on that row; a DROPPED or COMPLETED row keeps its status
C11_StatusTransitions ==
    [][\A e \in enrollments' :
          LET before == {o \in enrollments : o.id = e.id}
          IN IF before = {}
             THEN e.status \in {"pending", "active"}
             ELSE \A o \in before :
                     \/ e.status = o.status
                     \/ /\ o.status = "pending"
                        /\ e.status = "active"
                        /\ \E p \in Procs : /\ pc[p] = "ap_commit"
                                            /\ call[p].enrollment_id = e.id
                     \/ /\ o.status \in {"pending", "active"}
                        /\ e.status = "dropped"
                        /\ \E p \in Procs : /\ pc[p] = "dr_commit"
                                            /\ call[p].enrollment_id = e.id
      ]_vars

\* drop_student has moved an ACTIVE row to DROPPED
C11_Witness ==
    \E p \in Procs :
        /\ Done(p, "drop_student")
        /\ result[p] = "ok"
        /\ \E e \in enrollments, o \in pre[p].enrollments :
              e.id = o.id /\ o.status = "active" /\ e.status = "dropped"

\* the course is stored under the tenant in the tables of the snapshot
OwnedIn(snapshot, course_id, tenant_id) ==
    \E c \in snapshot.courses : c.id = course_id /\ c.tenant_id = tenant_id

\* the students named in the student_ids of the call in slot p
Listed(p) ==
    {call[p].student_ids[k] : k \in 1..Len(call[p].student_ids)}

\* the rows of the student in the course, in a table
RowsOf(tbl, course_id, student_id) ==
    {e \in tbl : e.course_id = course_id /\ e.student_id = student_id}

\* C12: enroll_student called with a tenant_id under which course_id is not
\* stored fails with CourseNotFound, whatever enrollments the course holds; it
\* never answers AlreadyEnrolled for the course of another tenant
C12_ForeignCourseNotFound ==
    \A p \in Procs :
        (/\ Done(p, "enroll_student")
         /\ ~OwnedIn(pre[p], call[p].course_id, call[p].tenant_id))
        => result[p] = "CourseNotFound"

\* C13: bulk_enroll_students on a course of the tenant creates no row for, and
\* leaves untouched, a listed student whose enrollment is ACTIVE, and returns
\* exactly one new ACTIVE enrollment for each listed student with no enrollment
C13_BulkSkipsActive ==
    \A p \in Procs :
        (/\ Done(p, "bulk_enroll_students")
         /\ OwnedIn(pre[p], call[p].course_id, call[p].tenant_id))
        => \A s \in Listed(p) :
              LET was == RowsOf(pre[p].enrollments, call[p].course_id, s)
                  is == RowsOf(enrollments, call[p].course_id, s)
              IN /\ (\E e \in was : e.status = "active") => is = was
                 /\ was = {} =>
                       /\ result[p] = "ok"
                       /\ Cardinality(is) = 1
                       /\ \A e \in is : /\ e.status = "active"
                                        /\ e.id \in loc[p].created

\* the example of C13 alone: for the list [s1, s2] with s1 ACTIVE and s2 not
\* enrolled, the call returns one new ACTIVE row, for s2, and s1 is untouched
C13_StatedExample ==
    \A p \in Procs :
        (/\ Done(p, "bulk_enroll_students")
         /\ OwnedIn(pre[p], call[p].course_id, call[p].tenant_id)
         /\ call[p].student_ids = <<"s1", "s2">>
         /\ StatusIn(pre[p].enrollments, call[p].course_id, "s1") = "active"
         /\ StatusIn(pre[p].enrollments, call[p].course_id, "s2") = None)
        => /\ result[p] = "ok"
           /\ \E e \in enrollments :
                 /\ enrollments = pre[p].enrollments \cup {e}
                 /\ e \notin pre[p].enrollments
                 /\ e.student_id = "s2"
                 /\ e.status = "active"
                 /\ loc[p].created = {e.id}

\* C14: bulk_enroll_students on a course of the tenant does not fail on a
\* listed student whose enrollment is PENDING, DROPPED or COMPLETED, and that
\* student ends with an ACTIVE enrollment
C14_BulkActivatesInactive ==
    \A p \in Procs :
        (/\ Done(p, "bulk_enroll_students")
         /\ OwnedIn(pre[p], call[p].course_id, call[p].tenant_id))
        => \A s \in Listed(p) :
              StatusIn(pre[p].enrollments, call[p].course_id, s)
                  \in {"pending", "dropped", "completed"}
              => /\ result[p] = "ok"
                 /\ StatusIn(enrollments, call[p].course_id, s) = "active"

\* the insert of the bulk call in slot p meets uq_course_student_enrollment:
\* a listed student holds a PENDING, DROPPED or COMPLETED row, or a student
\* without a row is listed twice
BulkCollides(p) ==
    \/ \E s \in Listed(p) :
          StatusIn(pre[p].enrollments, call[p].course_id, s)
              \in {"pending", "dropped", "completed"}
    \/ \E j, k \in 1..Len(call[p].student_ids) :
          /\ j # k
          /\ call[p].student_ids[j] = call[p].student_ids[k]
          /\ StatusIn(pre[p].enrollments, call[p].course_id,
                      call[p].student_ids[j]) = None

\* C15: bulk_enroll_students fails with CourseNotFound, creating nothing, when
\* the course is not stored under the tenant; otherwise its outcome depends
\* on the stored enrollments and the list only, never on max_students,
\* enrollment_deadline, is_active or auto_approval: it succeeds, every row it
\* creates being ACTIVE, on a full, inactive or past-deadline course as well
C15_BulkBypassesChecks ==
    \A p \in Procs :
        Done(p, "bulk_enroll_students")
        => IF ~OwnedIn(pre[p], call[p].course_id, call[p].tenant_id)
           THEN /\ result[p] = "CourseNotFound"
                /\ enrollments = pre[p].enrollments
           ELSE IF BulkCollides(p)
           THEN /\ result[p] = "IntegrityError"
                /\ enrollments = pre[p].enrollments
           ELSE /\ result[p] = "ok"
                /\ pre[p].enrollments \subseteq enrollments
                /\ \A e \in enrollments \ pre[p].enrollments :
                      /\ e.status = "active"
                      /\ e.course_id = call[p].course_id
                      /\ e.student_id \in Listed(p)
                /\ \A s \in Listed(p) :
                      StatusIn(enrollments, call[p].course_id, s) = "active"

\* a bulk call has succeeded on a deactivated course whose deadline is past,
\* and the course holds more ACTIVE enrollments than max_students
C15_Witness ==
    \E p \in Procs, c \in courses :
        /\ Done(p, "bulk_enroll_students")
        /\ result[p] = "ok"
        /\ c.id = call[p].course_id
        /\ ~c.is_active
        /\ c.enrollment_deadline # Null /\ now > c.enrollment_deadline
        /\ c.max_students # Null /\ ActiveCount(c.id) > c.max_students
        /\ enrollments # pre[p].enrollments

\* C16: a successful enroll_student creates exactly one enrollment row, for
\* the course and student of the call, ACTIVE if auto_approve is true or the
\* course has auto_approval, PENDING otherwise, carrying the enrollment_method
\* and the tenant_id of the call
C16_EnrollCreatesOne ==
    \A p \in Procs :
        (Done(p, "enroll_student") /\ result[p] = "ok")
        => \E e \in enrollments, c \in pre[p].courses :
              /\ c.id = call[p].course_id
              /\ e \notin pre[p].enrollments
              /\ enrollments = pre[p].enrollments \cup {e}
              /\ loc[p].created = {e.id}
              /\ e.course_id = call[p].course_id
              /\ e.student_id = call[p].student_id
              /\ e.status = IF call[p].auto_approve \/ c.auto_approval
                            THEN "active" ELSE "pending"
              /\ e.enrollment_method = call[p].enrollment_method
              /\ e.tenant_id = call[p].tenant_id

\* enroll_student without auto_approve, by an administrator, has created an
\* ACTIVE row on a course with auto_approval
C16_Witness ==
    \E p \in Procs, e \in enrollments :
        /\ Done(p, "enroll_student")
        /\ result[p] = "ok"
        /\ ~call[p].auto_approve
        /\ call[p].enrollment_method = "admin_added"
        /\ loc[p].created = {e.id}
        /\ e.status = "active"
        /\ e.enrollment_method = "admin_added"

\* the three conditions of C17 on the course of the call in slot p, taken on
\* the tables and the clock the caller observed
ClosedFor(p) ==
    \E c \in pre[p].courses :
        /\ c.id = call[p].course_id
        /\ \/ ~c.is_active
           \/ c.enrollment_deadline # Null /\ pre[p].now > c.enrollment_deadline
           \/ /\ c.max_students # Null
              /\ CountIn(pre[p].enrollments, c.id) >= c.max_students

\* enroll_student for a course of the tenant and a student without an ACTIVE
\* enrollment
EnrollAdmitted(p) ==
    /\ Done(p, "enroll_student")
    /\ OwnedIn(pre[p], call[p].course_id, call[p].tenant_id)
    /\ StatusIn(pre[p].enrollments, call[p].course_id, call[p].student_id)
           # "active"

\* C17: for a course of the tenant and a student without an ACTIVE
\* enrollment, enroll_student fails with EnrollmentClosed exactly when the
\* course is inactive, or its deadline is set and past, or max_students is set
\* (zero included) and reached by the ACTIVE enrollments; in every other case
\* it succeeds
C17_ClosedExactlyElseSucceeds ==
    \A p \in Procs :
        EnrollAdmitted(p)
        => IF ClosedFor(p)
           THEN result[p] = "EnrollmentClosed"
           ELSE result[p] = "ok"

\* the part of C17 that the code meets: EnrollmentClosed is raised exactly
\* under the three conditions, and a student with no enrollment row at all is
\* enrolled in every other case
C17_ClosedExactly ==
    \A p \in Procs :
        EnrollAdmitted(p)
        => /\ result[p] = "EnrollmentClosed" <=> ClosedFor(p)
           /\ (/\ ~ClosedFor(p)
               /\ StatusIn(pre[p].enrollments, call[p].course_id,
                           call[p].student_id) = None)
              => result[p] = "ok"

\* the status of the row with this id in a table, None when there is no row
StatusOf(tbl, enrollment_id) ==
    LET rows == {e \in tbl : e.id = enrollment_id}
    IN IF rows = {} THEN None ELSE (CHOOSE e \in rows : TRUE).status

\* C18: approve_enrollment and drop_student fail with NotFound when no row has
\* the id; approve_enrollment fails with InvalidState when the status is not
\* PENDING, drop_student when it is neither ACTIVE nor PENDING; a failing call
\* of either changes no enrollment row
C18_ApproveDropFailures ==
    \A p \in Procs :
        LET was == StatusOf(pre[p].enrollments, call[p].enrollment_id)
        IN /\ Done(p, "approve_enrollment")
              => /\ was = None => result[p] = "NotFound"
                 /\ was \in {"active", "dropped", "completed"}
                       => result[p] = "InvalidState"
           /\ Done(p, "drop_student")
              => /\ was = None => result[p] = "NotFound"
                 /\ was \in {"dropped", "completed"}
                       => result[p] = "InvalidState"
           /\ (/\ Done(p, "approve_enrollment") \/ Done(p, "drop_student")
               /\ result[p] # "ok")
              => enrollments = pre[p].enrollments

\* approve_enrollment has been refused on a COMPLETED row
C18_Witness ==
    \E p \in Procs :
        /\ Done(p, "approve_enrollment")
        /\ result[p] = "InvalidState"
        /\ StatusOf(pre[p].enrollments, call[p].enrollment_id) = "completed"
        /\ enrollments = pre[p].enrollments

\* C19: a successful drop_student leaves the row DROPPED with dropped_at the
\* time of the call, and under sequential calls a stored enrollment has
\* dropped_at set exactly when its status is DROPPED
C19_DroppedAtIffDropped ==
    /\ \A p \in Procs :
          (Done(p, "drop_student") /\ result[p] = "ok")
          => \E e \in enrollments :
                /\ e.id = call[p].enrollment_id
                /\ e.status = "dropped"
                /\ e.dropped_at = loc[p].dropped_at
                /\ pre[p].now <= e.dropped_at
                /\ e.dropped_at <= now
    /\ \A e \in enrollments : e.dropped_at # Null <=> e.status = "dropped"

\* after the clock has advanced, drop_student has stamped an ACTIVE row
C19_Witness ==
    \E p \in Procs, e \in enrollments :
        /\ Done(p, "drop_student")
        /\ result[p] = "ok"
        /\ e.id = call[p].enrollment_id
        /\ StatusOf(pre[p].enrollments, e.id) = "active"
        /\ e.status = "dropped"
        /\ e.dropped_at > 0

\* the assignments of a table with the triple of the add_instructor call in
\* slot p
SameTriple(tbl, p) ==
    {a \in tbl : /\ a.course_id = call[p].course_id
                 /\ a.instructor_id = call[p].instructor_id
                 /\ a.role = call[p].role}

\* no two stored assignments share (course_id, instructor_id, role)
UniqueTriples ==
    \A a, b \in instructors :
        (/\ a.course_id = b.course_id
         /\ a.instructor_id = b.instructor_id
         /\ a.role = b.role) => a = b

\* C20: under sequences of create_course and add_instructor, with assignments
\* deactivated in between, no two assignments share (course_id, instructor_id,
\* role), and add_instructor, for a stored course and an instructor who is a
\* user, fails with DuplicateAssignment, creating nothing, exactly when an
\* active assignment with the triple exists, and otherwise succeeds with a
\* new active assignment
C20_AddInstructorOutcome ==
    /\ UniqueTriples
    /\ \A p \in Procs :
          (/\ Done(p, "add_instructor")
           /\ call[p].instructor_id \in Users
           /\ \E c \in pre[p].courses : c.id = call[p].course_id)
          => IF \E a \in SameTriple(pre[p].instructors, p) : a.is_active
             THEN /\ result[p] = "DuplicateAssignment"
                  /\ instructors = pre[p].instructors
             ELSE /\ result[p] = "ok"
                  /\ \E a \in SameTriple(instructors, p) :
                        /\ a.is_active
                        /\ a \notin pre[p].instructors
                        /\ instructors = pre[p].instructors \cup {a}

\* the part of C20 that the code meets: the triples stay unique,
\* DuplicateAssignment is raised exactly when an active assignment with the
\* triple exists and creates nothing, and a triple that no stored assignment
\* has, active or not, is assigned
C20_UniqueAndDuplicateExactly ==
    /\ UniqueTriples
    /\ \A p \in Procs :
          (/\ Done(p, "add_instructor")
           /\ call[p].instructor_id \in Users
           /\ \E c \in pre[p].courses : c.id = call[p].course_id)
          => /\ result[p] = "DuplicateAssignment"
                <=> \E a \in SameTriple(pre[p].instructors, p) : a.is_active
             /\ result[p] # "ok" => instructors = pre[p].instructors
             /\ SameTriple(pre[p].instructors, p) = {} => result[p] = "ok"

\* the call in slot p is a ProjectService call on a course: create_project,
\* or publish_project / update_team_formation_settings on a stored project
ProjectOps == {"create_project", "publish_project",
               "update_team_formation_settings"}

\* the course the permission of the call in slot p is checked on, Null when
\* the project of the call is not stored
CheckedCourse(p) ==
    IF call[p].op = "create_project"
    THEN call[p].course_id
    ELSE IF \E r \in pre[p].projects : r.id = call[p].project_id
    THEN (CHOOSE r \in pre[p].projects : r.id = call[p].project_id).course_id
    ELSE Null

\* the number of active assignments the caller of slot p held on that course
\* when the call was issued
ActiveRoles(p) ==
    Cardinality(ActiveAssignments(pre[p].instructors, CheckedCourse(p),
                                  call[p].instructor_id))

\* C21: the permission check of create_project, publish_project and
\* update_team_formation_settings grants permission exactly when the caller
\* holds at least one active assignment on the course, whatever the roles and
\* however many; with no active assignment the call fails with
\* PermissionDenied
C21_PermissionIffActiveAssignment ==
    \A p \in Procs :
        (/\ pc[p] = "done"
         /\ call[p].op \in ProjectOps
         /\ CheckedCourse(p) # Null)
        => /\ ActiveRoles(p) = 0 => result[p] = "PermissionDenied"
           /\ ActiveRoles(p) >= 1 =>
                 /\ loc[p].has_permission
                 /\ result[p] \notin {"PermissionDenied", "MultipleResultsFound"}

\* the part of C21 that the code meets: with exactly one active assignment,
\* of any role, permission is granted, and with none it is denied
C21_OneActiveAssignment ==
    \A p \in Procs :
        (/\ pc[p] = "done"
         /\ call[p].op \in ProjectOps
         /\ CheckedCourse(p) # Null)
        => /\ ActiveRoles(p) = 0 => result[p] = "PermissionDenied"
           /\ ActiveRoles(p) = 1 =>
                 /\ loc[p].has_permission
                 /\ result[p] # "PermissionDenied"

\* C22: for a caller the permission check has let through, create_project
\* fails with InvalidDateRange when start_date >= due_date, else with
\* InvalidDeadline when team_formation_deadline > due_date, else with
\* InvalidTeamSize when min_team_size > max_team_size, storing no project;
\* when none of the three holds it stores exactly one project, active and
\* unpublished, with the dates and sizes of the call
C22_CreateProjectValidation ==
    \A p \in Procs :
        (Done(p, "create_project") /\ loc[p].has_permission)
        => IF call[p].start_date >= call[p].due_date
           THEN result[p] = "InvalidDateRange" /\ projects = pre[p].projects
           ELSE IF call[p].team_formation_deadline > call[p].due_date
           THEN result[p] = "InvalidDeadline" /\ projects = pre[p].projects
           ELSE IF call[p].min_team_size > call[p].max_team_size
           THEN result[p] = "InvalidTeamSize" /\ projects = pre[p].projects
           ELSE /\ result[p] = "ok"
                /\ \E r \in projects :
                      /\ r \notin pre[p].projects
                      /\ projects = pre[p].projects \cup {r}
                      /\ r.is_active /\ ~r.is_published
                      /\ r.course_id = call[p].course_id
                      /\ r.start_date = call[p].start_date
                      /\ r.due_date = call[p].due_date
                      /\ r.team_formation_deadline =
                             call[p].team_formation_deadline
                      /\ r.min_team_size = call[p].min_team_size
                      /\ r.max_team_size = call[p].max_team_size

\* create_project with start_date = due_date has been refused, and nothing
\* else was wrong with the call
C22_Witness ==
    \E p \in Procs :
        /\ Done(p, "create_project")
        /\ loc[p].has_permission
        /\ call[p].start_date = call[p].due_date
        /\ call[p].team_formation_deadline <= call[p].due_date
        /\ call[p].min_team_size <= call[p].max_team_size
        /\ result[p] = "InvalidDateRange"
        /\ projects = pre[p].projects

\* the three constraints on the timeline and the team sizes of a project
ValidProject(r) ==
    /\ r.start_date < r.due_date
    /\ r.team_formation_deadline <= r.due_date
    /\ r.min_team_size <= r.max_team_size

\* C23: under sequences of create_project, publish_project and
\* update_team_formation_settings calls, successful or failing, every stored
\* project has start_date < due_date, team_formation_deadline <= due_date and
\* min_team_size <= max_team_size
C23_StoredProjectsValid == \A r \in projects : ValidProject(r)

\* what a read of the project returns in the unit of work of a snapshot: the
\* object the session holds, else the stored row
SeenIn(snapshot, project_id) ==
    IF \E h \in snapshot.held : h.id = project_id
    THEN {h \in snapshot.held : h.id = project_id}
    ELSE {r \in snapshot.projects : r.id = project_id}

\* the session of the snapshot holds no object that differs from its row
Clean(snapshot) == snapshot.held \subseteq snapshot.projects

\* C24: when update_team_formation_settings fails with InvalidTeamSize or
\* InvalidDeadline nothing is applied: the stored projects are unchanged, and
\* a read of the project in the same unit of work returns the values it had
\* before the call
C24_FailedUpdateAppliesNothing ==
    \A p \in Procs :
        (/\ Done(p, "update_team_formation_settings")
         /\ result[p] \in {"InvalidTeamSize", "InvalidDeadline"})
        => /\ projects = pre[p].projects
           /\ ProjectById(call[p].project_id) = SeenIn(pre[p], call[p].project_id)

\* C25: update_team_formation_settings, for a caller the permission check has
\* let through, validates the state that results from applying the supplied
\* fields to the stored project; it fails with InvalidTeamSize or
\* InvalidDeadline, storing nothing, when that state violates min <= max or
\* deadline <= due_date, and otherwise stores exactly that state: the
\* supplied fields changed, every omitted field kept
C25_PartialUpdate ==
    \A p \in Procs :
        (/\ Done(p, "update_team_formation_settings")
         /\ loc[p].has_permission)
        => \E old \in pre[p].projects :
              /\ old.id = call[p].project_id
              /\ LET new == WithSettings(old, call[p])
                 IN IF new.min_team_size > new.max_team_size
                    THEN /\ result[p] = "InvalidTeamSize"
                         /\ projects = pre[p].projects
                    ELSE IF new.team_formation_deadline > new.due_date
                    THEN /\ result[p] = "InvalidDeadline"
                         /\ projects = pre[p].projects
                    ELSE /\ result[p] = "ok"
                         /\ projects = (pre[p].projects \ {old}) \cup {new}

\* C25 for a call issued in a session that holds no modified object
C25_PartialUpdateInCleanSession ==
    \A p \in Procs :
        (/\ Done(p, "update_team_formation_settings")
         /\ loc[p].has_permission
         /\ Clean(pre[p]))
        => \E old \in pre[p].projects :
              /\ old.id = call[p].project_id
              /\ LET new == WithSettings(old, call[p])
                 IN IF new.min_team_size > new.max_team_size
                    THEN /\ result[p] = "InvalidTeamSize"
                         /\ projects = pre[p].projects
                    ELSE IF new.team_formation_deadline > new.due_date
                    THEN /\ result[p] = "InvalidDeadline"
                         /\ projects = pre[p].projects
                    ELSE /\ result[p] = "ok"
                         /\ projects = (pre[p].projects \ {old}) \cup {new}

\* C26: publish_project, for a caller the permission check has let through,
\* succeeds and stores is_published = true with every other field unchanged;
\* on a project that is already published, as on a second call, it succeeds
\* and leaves the stored state as it was
C26_PublishIdempotent ==
    \A p \in Procs :
        (/\ Done(p, "publish_project")
         /\ loc[p].has_permission
         /\ Clean(pre[p]))
        => /\ result[p] = "ok"
           /\ projects = {IF r.id = call[p].project_id
                          THEN [r EXCEPT !.is_published = TRUE] ELSE r
                          : r \in pre[p].projects}
           /\ (\E r \in pre[p].projects :
                  r.id = call[p].project_id /\ r.is_published)
              => projects = pre[p].projects

\* publish_project has succeeded on a project that was already published
C26_Witness ==
    \E p \in Procs :
        /\ Done(p, "publish_project")
        /\ result[p] = "ok"
        /\ Clean(pre[p])
        /\ \E r \in pre[p].projects :
              r.id = call[p].project_id /\ r.is_published
        /\ projects = pre[p].projects

\* C27: authorization is evaluated at the time of each call: publish_project
\* and update_team_formation_settings fail with NotFound, changing nothing,
\* for a project that is not stored, and with PermissionDenied, changing
\* nothing, whenever the instructor holds no active assignment on the
\* project's course when the call is made
C27_AuthorizedPerCall ==
    \A p \in Procs :
        (\/ Done(p, "publish_project")
         \/ Done(p, "update_team_formation_settings"))
        => LET stored == {r \in pre[p].projects : r.id = call[p].project_id}
           IN /\ stored = {}
                 => result[p] = "NotFound" /\ projects = pre[p].projects
              /\ \A r \in stored :
                    ActiveAssignments(pre[p].instructors, r.course_id,
                                      call[p].instructor_id) = {}
                    => /\ result[p] = "PermissionDenied"
                       /\ projects = pre[p].projects

\* u1, whose assignment allowed an earlier publish_project, is refused after
\* the assignment was deactivated
C27_Witness ==
    \E p \in Procs :
        /\ Done(p, "update_team_formation_settings")
        /\ result[p] = "PermissionDenied"
        /\ call[p].instructor_id = "u1"
        /\ \E r \in projects : r.id = call[p].project_id /\ r.is_published
        /\ \E a \in instructors : a.instructor_id = "u1" /\ ~a.is_active

\* the same after the assignment was deleted
C27_WitnessDeleted ==
    \E p \in Procs :
        /\ Done(p, "publish_project")
        /\ result[p] = "PermissionDenied"
        /\ call[p].instructor_id = "u1"
        /\ \E r \in projects : r.id = call[p].project_id /\ r.is_published
        /\ instructors = {}

\* the courses other than the call's own that carry its code in its tenant
SameCodeInTenant(p) ==
    {c \in courses : /\ c.tenant_id = call[p].tenant_id
                     /\ c.code = call[p].code
                     /\ c.id # loc[p].course_id}

\* C28: course codes are unique per tenant only: the outcome of create_course
\* in a tenant is decided by that tenant's courses (and the instructor), never
\* by another tenant's: the course is stored exactly when no other course of
\* the tenant carries the code, and the call succeeds exactly when the course
\* is stored and the instructor is a user; a code used only by a course of a
\* different tenant is therefore accepted
C28_CodePerTenant ==
    \A p \in Procs :
        Done(p, "create_course")
        => /\ loc[p].course_id # Null <=> SameCodeInTenant(p) = {}
           /\ result[p] = "ok" <=> /\ loc[p].course_id # Null
                                   /\ call[p].instructor_id \in Users

\* create_course has succeeded with a code that a course of a different
\* tenant carried when the call was issued
C28_Witness ==
    \E p \in Procs :
        /\ Done(p, "create_course")
        /\ result[p] = "ok"
        /\ \E c \in pre[p].courses :
              c.code = call[p].code /\ c.tenant_id # call[p].tenant_id

\* C29: deleting a course deletes its children: in every state each stored
\* CourseInstructor, CourseEnrollment and Project references a stored course,
\* and once a delete of a course has returned no stored child references it
C29_CascadeOnDelete ==
    /\ \A a \in instructors : \E c \in courses : c.id = a.course_id
    /\ \A e \in enrollments : \E c \in courses : c.id = e.course_id
    /\ \A r \in projects : \E c \in courses : c.id = r.course_id
    /\ \A p \in Procs :
          (Done(p, "delete_course") /\ result[p] = "True")
          => /\ CourseById(call[p].course_id) = {}
             /\ \A a \in instructors : a.course_id # call[p].course_id
             /\ \A e \in enrollments : e.course_id # call[p].course_id
             /\ \A r \in projects : r.course_id # call[p].course_id

\* a course that had an instructor, an enrollment and a project has been
\* deleted
C29_Witness ==
    \E p \in Procs :
        /\ Done(p, "delete_course")
        /\ result[p] = "True"
        /\ \E a \in pre[p].instructors : a.course_id = call[p].course_id
        /\ \E e \in pre[p].enrollments : e.course_id = call[p].course_id
        /\ \E r \in pre[p].projects : r.course_id = call[p].course_id

\* a row inserted between the delete's load and its commit has gone with the
\* course
C29_WitnessInsertedMeanwhile ==
    \E p \in Procs, q \in Procs :
        /\ Done(p, "delete_course")
        /\ result[p] = "True"
        /\ Done(q, "enroll_student")
        /\ result[q] = "ok"
        /\ \A e \in enrollments : e.id \notin loc[q].created

\* an insert that follows the delete is refused by the foreign key
C29_WitnessInsertRefused ==
    \E p \in Procs, q \in Procs :
        /\ Done(p, "delete_course")
        /\ result[p] = "True"
        /\ Done(q, "create_project")
        /\ result[q] = "IntegrityError"

\* the organizations other than the call's own that carry its slug
SameSlug(p) ==
    {o \in organizations : o.slug = call[p].slug /\ o.id \notin loc[p].created}

\* C30: under any interleaving of create_organization calls no two
\* organizations share a slug and no two share a non-null domain; a call whose
\* slug, or whose domain, an organization already carried when it was issued
\* fails and creates nothing; a call without a domain never fails on the
\* domain: it succeeds exactly when no other organization carries its slug
C30_SlugAndDomainUnique ==
    /\ \A o1 \in organizations, o2 \in organizations :
          o1 # o2 => /\ o1.slug # o2.slug
                     /\ o1.domain # None => o1.domain # o2.domain
    /\ \A p \in Procs :
          Done(p, "create_organization")
          => /\ (\E o \in pre[p].organizations :
                    \/ o.slug = call[p].slug
                    \/ call[p].domain # None /\ o.domain = call[p].domain)
                => /\ result[p] # "ok"
                   /\ loc[p].created = {}
             /\ call[p].domain = None
                => /\ result[p] # "DuplicateDomain"
                   /\ result[p] = "ok" <=> SameSlug(p) = {}

\* a call with a domain that a stored organization carries has failed and
\* created nothing
C30_Witness ==
    \E p \in Procs :
        /\ Done(p, "create_organization")
        /\ result[p] = "DuplicateDomain"
        /\ \E o \in pre[p].organizations : o.domain = call[p].domain
        /\ organizations = pre[p].organizations

\* two organizations without a domain are stored
C30_WitnessNoDomain ==
    \E o1 \in organizations, o2 \in organizations :
        o1 # o2 /\ o1.domain = None /\ o2.domain = None

\* of two interleaved calls with one slug the second to commit is refused by
\* the unique constraint
C30_WitnessRace ==
    \E p \in Procs :
        /\ Done(p, "create_organization")
        /\ result[p] = "IntegrityError"
        /\ \A o \in pre[p].organizations : o.slug # call[p].slug

\* the projects of the listing's tenant whose team formation is open at the
\* instant of the listing
OpenAtListing(p) ==
    {r \in projects : /\ r.tenant_id = call[p].tenant_id
                      /\ is_team_formation_open(r, loc[p].now)}

\* C31: is_team_formation_open is true at an instant exactly when the
\* project is active and published and the instant is not after
\* team_formation_deadline; list_team_formation_open returns, within its
\* page, exactly the projects of the tenant that are open at that instant,
\* ordered by deadline
C31_ListMatchesProperty ==
    /\ \A r \in projects, t \in 0..MaxTime :
          is_team_formation_open(r, t)
          <=> (r.is_active /\ r.is_published /\ t <= r.team_formation_deadline)
    /\ \A p \in Procs :
          Done(p, "list_team_formation_open")
          => LET page == loc[p].page
                 rest == Cardinality(OpenAtListing(p)) - call[p].skip
             IN /\ result[p] = "ok"
                /\ \A i \in 1..Len(page) : page[i] \in OpenAtListing(p)
                /\ \A i, j \in 1..Len(page) : i # j => page[i] # page[j]
                /\ Len(page) = IF rest < 0 THEN 0
                               ELSE IF rest < call[p].limit THEN rest
                               ELSE call[p].limit
                /\ \A i, j \in 1..Len(page) :
                      i < j => page[i].team_formation_deadline
                               <= page[j].team_formation_deadline
                /\ (call[p].skip = 0
                    /\ call[p].limit >= Cardinality(OpenAtListing(p)))
                   => {page[i] : i \in 1..Len(page)} = OpenAtListing(p)

\* a listing made after the clock advanced returns a project whose deadline
\* is that instant
C31_Witness ==
    \E p \in Procs :
        /\ Done(p, "list_team_formation_open")
        /\ loc[p].now > 0
        /\ \E i \in 1..Len(loc[p].page) :
              loc[p].page[i].team_formation_deadline = loc[p].now

\* the child rows carry the tenant of the course they reference
OwnedByCourseTenant(children) ==
    \A x \in children :
        \A c \in courses : c.id = x.course_id => x.tenant_id = c.tenant_id

\* C32: each CourseInstructor, CourseEnrollment and Project has the tenant_id
\* of the course it references; add_instructor and create_project called with
\* another tenant_id store no child under that tenant
C32_OwnershipConsistent ==
    /\ OwnedByCourseTenant(instructors)
    /\ OwnedByCourseTenant(enrollments)
    /\ OwnedByCourseTenant(projects)

\* C32 for enrollments alone: enroll_student looks the course up in the
\* caller's tenant, bulk_enroll_students copies the course's tenant
C32_EnrollmentsOwned == OwnedByCourseTenant(enrollments)

\* C33: when an approve_enrollment call and a drop_student call on the same
\* enrollment have both returned and the drop has succeeded, the stored
\* enrollment is not ACTIVE, and its dropped_at is set exactly when its status
\* is DROPPED
C33_DropNotUndoneByApprove ==
    \A p \in Procs, q \in Procs :
        (/\ Done(p, "approve_enrollment")
         /\ Done(q, "drop_student")
         /\ call[p].enrollment_id = call[q].enrollment_id
         /\ result[q] = "ok")
        => \A e \in EnrollmentById(call[q].enrollment_id) :
              /\ e.status # "active"
              /\ e.dropped_at # Null <=> e.status = "dropped"

\* the ACTIVE enrollments of the course when the call in slot p was issued
ActiveBefore(p, course_id) ==
    Cardinality({e \in pre[p].enrollments :
                    e.course_id = course_id /\ e.status = "active"})

\* the course had room when the call in slot p was issued
RoomBefore(p, course_id) ==
    \A c \in pre[p].courses :
        c.id = course_id
        => (c.max_students = Null \/ ActiveBefore(p, course_id) < c.max_students)

\* C34: capacity is evaluated on the state each call finds: a successful
\* drop_student on an ACTIVE enrollment lowers the ACTIVE count of its course
\* by one; approve_enrollment of a PENDING enrollment succeeds whenever the
\* ACTIVE count it finds is below max_students; enroll_student is rejected as
\* closed only when the count it finds has reached max_students. So after a
\* drop on a full course a following approve succeeds and a following enroll
\* is not rejected for capacity
C34_CapacityReevaluated ==
    \A p \in Procs :
        /\ (Done(p, "drop_student") /\ result[p] = "ok")
           => \A e \in pre[p].enrollments :
                 (e.id = call[p].enrollment_id /\ e.status = "active")
                 => ActiveCount(e.course_id) = ActiveBefore(p, e.course_id) - 1
        /\ Done(p, "approve_enrollment")
           => \A e \in pre[p].enrollments :
                 (/\ e.id = call[p].enrollment_id
                  /\ e.status = "pending"
                  /\ RoomBefore(p, e.course_id))
                 => /\ result[p] = "ok"
                    /\ ActiveCount(e.course_id) = ActiveBefore(p, e.course_id) + 1
        /\ (Done(p, "enroll_student") /\ result[p] = "EnrollmentClosed")
           => ~RoomBefore(p, call[p].course_id)

\* the enrollments of a course a drop_student call has succeeded on
DroppedIn(snapshot, course_id) ==
    {e \in snapshot.enrollments :
        e.course_id = course_id /\ e.status = "dropped" /\ e.dropped_at # Null}

\* a PENDING enrollment has been approved into the seat that a drop freed on
\* a course that is full again
C34_Witness ==
    \E p \in Procs :
        /\ Done(p, "approve_enrollment")
        /\ result[p] = "ok"
        /\ \E c \in courses :
              /\ DroppedIn(pre[p], c.id) # {}
              /\ ActiveBefore(p, c.id) = c.max_students - 1
              /\ ActiveCount(c.id) = c.max_students
              /\ \E e \in enrollments :
                    e.id = call[p].enrollment_id /\ e.course_id = c.id

\* an enroll_student call has been admitted into the seat that a drop freed
C34_WitnessEnroll ==
    \E p \in Procs :
        /\ Done(p, "enroll_student")
        /\ result[p] = "ok"
        /\ \E c \in courses :
              /\ c.id = call[p].course_id
              /\ DroppedIn(pre[p], c.id) # {}
              /\ ActiveBefore(p, c.id) = c.max_students - 1

\* C35: a failing call reports the first check that applies. create_project:
\* PermissionDenied for a caller with no active assignment, whatever the dates
\* and sizes; for a caller the permission check lets through,
\* InvalidDateRange, else InvalidDeadline, else InvalidTeamSize.
\* enroll_student: AlreadyEnrolled, else CourseNotFound, else
\* EnrollmentClosed, and none of the three when none applies
C35_CheckOrder ==
    \A p \in Procs :
        /\ Done(p, "create_project")
           => /\ ActiveAssignments(pre[p].instructors, call[p].course_id,
                                   call[p].instructor_id) = {}
                 => result[p] = "PermissionDenied"
              /\ loc[p].has_permission
                 => IF call[p].start_date >= call[p].due_date
                    THEN result[p] = "InvalidDateRange"
                    ELSE IF call[p].team_formation_deadline > call[p].due_date
                    THEN result[p] = "InvalidDeadline"
                    ELSE IF call[p].min_team_size > call[p].max_team_size
                    THEN result[p] = "InvalidTeamSize"
                    ELSE result[p] \notin {"PermissionDenied", "InvalidDateRange",
                                           "InvalidDeadline", "InvalidTeamSize"}
        /\ Done(p, "enroll_student")
           => IF StatusIn(pre[p].enrollments, call[p].course_id,
                          call[p].student_id) = "active"
              THEN result[p] = "AlreadyEnrolled"
              ELSE IF ~OwnedIn(pre[p], call[p].course_id, call[p].tenant_id)
              THEN result[p] = "CourseNotFound"
              ELSE IF ClosedFor(p)
              THEN result[p] = "EnrollmentClosed"
              ELSE result[p] \notin {"AlreadyEnrolled", "CourseNotFound",
                                     "EnrollmentClosed"}

\* create_project by a caller with permission, wrong in its date range, its
\* deadline and its sizes at once, has been answered with InvalidDateRange
C35_Witness ==
    \E p \in Procs :
        /\ Done(p, "create_project")
        /\ loc[p].has_permission
        /\ call[p].start_date >= call[p].due_date
        /\ call[p].team_formation_deadline > call[p].due_date
        /\ call[p].min_team_size > call[p].max_team_size
        /\ result[p] = "InvalidDateRange"

\* a caller without permission, with wrong dates and sizes, has been answered
\* with PermissionDenied
C35_WitnessDenied ==
    \E p \in Procs :
        /\ Done(p, "create_project")
        /\ result[p] = "PermissionDenied"
        /\ call[p].start_date >= call[p].due_date
        /\ call[p].min_team_size > call[p].max_team_size

\* enroll_student for an actively enrolled student, naming another tenant, on
\* a closed course, has been answered with AlreadyEnrolled
C35_WitnessEnroll ==
    \E p \in Procs :
        /\ Done(p, "enroll_student")
        /\ result[p] = "AlreadyEnrolled"
        /\ ~OwnedIn(pre[p], call[p].course_id, call[p].tenant_id)
        /\ \E c \in pre[p].courses : c.id = call[p].course_id /\ ~c.is_active

\* C36: bulk_enroll_students on a course of the caller's tenant, listing
\* students none of whom has an enrollment there, some of them more than once,
\* does not fail: it creates one enrollment for each listed student, the
\* repeated ones included, and changes no other row
C36_BulkToleratesDuplicates ==
    \A p \in Procs :
        (/\ Done(p, "bulk_enroll_students")
         /\ OwnedIn(pre[p], call[p].course_id, call[p].tenant_id)
         /\ \A s \in Listed(p) :
               RowsOf(pre[p].enrollments, call[p].course_id, s) = {})
        => /\ result[p] = "ok"
           /\ pre[p].enrollments \subseteq enrollments
           /\ \A s \in Listed(p) :
                 Cardinality(RowsOf(enrollments, call[p].course_id, s)) = 1

\* C36 for a list without repetition
C36_BulkOfDistinctStudents ==
    \A p \in Procs :
        (/\ Done(p, "bulk_enroll_students")
         /\ OwnedIn(pre[p], call[p].course_id, call[p].tenant_id)
         /\ Cardinality(Listed(p)) = Len(call[p].student_ids)
         /\ \A s \in Listed(p) :
               RowsOf(pre[p].enrollments, call[p].course_id, s) = {})
        => /\ result[p] = "ok"
           /\ pre[p].enrollments \subseteq enrollments
           /\ \A s \in Listed(p) :
                 Cardinality(RowsOf(enrollments, call[p].course_id, s)) = 1

\* C37: the outcome of update_team_formation_settings, for a caller the
\* permission check has let through, is decided by the settings that result
\* from the call alone: it succeeds exactly when they satisfy min <= max and
\* deadline <= due_date, whatever the time, is_published, is_active and
\* is_team_formation_open are, and a success stores them
C37_NoImplicitFreeze ==
    \A p \in Procs :
        (/\ Done(p, "update_team_formation_settings")
         /\ loc[p].has_permission)
        => \A old \in pre[p].projects :
              old.id = call[p].project_id
              => LET new == WithSettings(old, call[p])
                     valid == /\ new.min_team_size <= new.max_team_size
                              /\ new.team_formation_deadline <= new.due_date
                 IN /\ result[p] = "ok" <=> valid
                    /\ valid => new \in projects

\* the update of a published project has succeeded after its deadline and
\* its due date had passed
C37_Witness ==
    \E p \in Procs :
        /\ Done(p, "update_team_formation_settings")
        /\ result[p] = "ok"
        /\ projects # pre[p].projects
        /\ \E old \in pre[p].projects :
              /\ old.id = call[p].project_id
              /\ old.is_published
              /\ pre[p].now > old.due_date
              /\ ~is_team_formation_open(old, pre[p].now)

\* the update of an inactive project has succeeded
C37_WitnessInactive ==
    \E p \in Procs :
        /\ Done(p, "update_team_formation_settings")
        /\ result[p] = "ok"
        /\ projects # pre[p].projects
        /\ \E old \in pre[p].projects :
              old.id = call[p].project_id /\ ~old.is_active

\* the stored projects of a snapshot with f applied to the one with this id
ProjectsWith(snapshot, project_id, f(_)) ==
    {IF r.id = project_id THEN f(r) ELSE r : r \in snapshot.projects}

\* the stored enrollments of a snapshot with f applied to the one with this id
EnrollmentsWith(snapshot, enrollment_id, f(_)) ==
    {IF e.id = enrollment_id THEN f(e) ELSE e : e \in snapshot.enrollments}

\* the frame of the two enrollment transitions
EnrollmentFrame(p) ==
    /\ (Done(p, "approve_enrollment") /\ result[p] = "ok")
       => LET approved(e) == [e EXCEPT !.status = "active"]
          IN /\ enrollments =
                    EnrollmentsWith(pre[p], call[p].enrollment_id, approved)
             /\ courses = pre[p].courses
             /\ instructors = pre[p].instructors
             /\ projects = pre[p].projects
    /\ (Done(p, "drop_student") /\ result[p] = "ok")
       => LET dropped(e) == [e EXCEPT !.status = "dropped",
                                      !.dropped_at = loc[p].dropped_at]
          IN /\ enrollments =
                    EnrollmentsWith(pre[p], call[p].enrollment_id, dropped)
             /\ courses = pre[p].courses
             /\ instructors = pre[p].instructors
             /\ projects = pre[p].projects

\* the frame of a successful publish_project
PublishFrame(p) ==
    (Done(p, "publish_project") /\ result[p] = "ok")
    => LET published(r) == [r EXCEPT !.is_published = TRUE]
       IN /\ projects = ProjectsWith(pre[p], call[p].project_id, published)
          /\ courses = pre[p].courses
          /\ instructors = pre[p].instructors
          /\ enrollments = pre[p].enrollments

\* the frame of update_team_formation_settings, successful or not
UpdateFrame(p) ==
    Done(p, "update_team_formation_settings")
    => /\ \A old \in pre[p].projects :
             \E new \in projects :
                /\ new.id = old.id
                /\ new.start_date = old.start_date
                /\ new.due_date = old.due_date
                /\ new.is_active = old.is_active
                /\ new.is_published = old.is_published
                /\ new.course_id = old.course_id
                /\ old.id # call[p].project_id => new = old
       /\ Cardinality(projects) = Cardinality(pre[p].projects)
       /\ courses = pre[p].courses
       /\ instructors = pre[p].instructors
       /\ enrollments = pre[p].enrollments

\* C38: a successful approve_enrollment changes only the status of the one
\* enrollment, a successful drop_student only its status and dropped_at, a
\* successful publish_project only is_published of the one project;
\* update_team_formation_settings never changes start_date, due_date,
\* is_active, is_published or course_id; none of them changes any other
\* enrollment, project, course or assignment
C38_Frame ==
    \A p \in Procs : EnrollmentFrame(p) /\ PublishFrame(p) /\ UpdateFrame(p)

\* C38 for approve_enrollment and drop_student
C38_EnrollmentFrame == \A p \in Procs : EnrollmentFrame(p)

\* C38 for update_team_formation_settings
C38_UpdateFrame == \A p \in Procs : UpdateFrame(p)

\* C38 for a publish_project issued in a session that holds no modified
\* object
C38_PublishFrameInCleanSession ==
    \A p \in Procs : Clean(pre[p]) => PublishFrame(p)

====
